---- MODULE Spec2Model ----
(***************************************************************************)
(* Model of bible-cli's AI streaming client and interactive chat session.  *)
(*                                                                         *)
(*   - the stream decoders  OpenAiClient::stream_request  and              *)
(*     AnthropicClient::stream_request  (src/src/ai/openai.rs,             *)
(*     src/src/ai/anthropic.rs);                                           *)
(*   - the chat loop  run_ai_chat_streaming  and  trim_chat_history        *)
(*     (src/src/commands.rs).                                              *)
(*                                                                         *)
(* Text is a sequence of characters and a response body a sequence of      *)
(* bytes.  An ASCII run that no operation of the code looks inside         *)
(* ("data:", a JSON fragment, a word) is one element, written as the       *)
(* string itself: it stands for its bytes and for its characters alike.    *)
(* The two-byte UTF-8 encoding of U+00E9 is the byte pair LeadByte,        *)
(* ContByte, so that a chunk boundary can fall inside a character.         *)
(***************************************************************************)
EXTENDS Integers, Sequences, FiniteSets, TLC

VARIABLES
    \* ---- one streaming exchange (stream_request) ----
    dprov,        \* which client decodes: "openai" | "anthropic" | "none"
    status,       \* HTTP status of the response (0: no response was received)
    transcript,   \* the lines the server wrote (structured; body is their encoding)
    body,         \* the response body, a sequence of bytes
    pos,          \* number of body bytes the transport has delivered so far
    buffer,       \* `buffer`: decoded text not yet consumed as a line
    events,       \* every item the stream has yielded so far, in order
    dpc,          \* "init" | "reading" | "closed" (the generator has returned)
    \* ---- the chat session (run_ai_chat_streaming) ----
    pc,               \* "Idle" (reading a line) | "Awaiting" (consuming the stream)
                      \* | "Terminated"
    history,          \* `history`: sequence of ChatMessage
    current_model,    \* `current_model`
    current_provider, \* `current_provider`
    response_text,    \* `response_text` of the turn in progress
    request,          \* `request` of the turn in progress
    env,              \* names of the environment variables that are set
    args,             \* the command line: [provider, model]
    lineNo,           \* number of input lines read so far
    freeLines,        \* number of those read since the warm-up ended
    last_line,        \* the line read last, trimmed (history variable)
    last_turn,        \* how the last line ended (history variable)
    wire,             \* the request body of the exchange, as translated
    sink,             \* what the turn has printed since the last prompt
    notice,           \* the message the last line was answered with ("": none)
    \* ---- the reader (tui::App) and the search command (run_search) ----
    app,              \* the App of the reader, and the verses it was given
    search            \* the arguments of run_search and what it has printed

dvars == <<dprov, status, transcript, body, pos, buffer, events, dpc>>
cvars ==
    <<pc, history, current_model, current_provider, response_text, request,
      env, args, lineNo, freeLines, last_line, last_turn, wire, sink,
      notice>>
xvars == <<app, search>>
vars == <<dvars, cvars, xvars>>

----------------------------------------------------------------------------
\* Bounds of the model
MaxBodyLines == 3
MaxChunk == 3
MaxLines == 22
MaxFreeLines == 2
MaxTrimBase == 3
MaxMessages == 3
\* the lines of SlashLines are typed among the first MaxSlashLine lines
MaxSlashLine == 1
\* the verse files hold up to MaxVerses verses
MaxVerses == 3

----------------------------------------------------------------------------
\* Characters and bytes

LF == "\n"
Whitespace == {" ", "\r", "\t", LF}

LeadByte == "xC3"
ContByte == "xA9"
EAcute == "U+00E9"
Replacement == "U+FFFD"

\* String::from_utf8_lossy on one chunk: a lead byte followed by its
\* continuation byte is the character; a lead byte without it, and a stray
\* continuation byte, each become U+FFFD; ASCII is unchanged.
RECURSIVE from_utf8_lossy(_)
from_utf8_lossy(b) ==
    IF b = <<>> THEN <<>>
    ELSE IF Head(b) = LeadByte
         THEN IF Len(b) >= 2 /\ b[2] = ContByte
              THEN <<EAcute>> \o from_utf8_lossy(SubSeq(b, 3, Len(b)))
              ELSE <<Replacement>> \o from_utf8_lossy(Tail(b))
    ELSE IF Head(b) = ContByte
         THEN <<Replacement>> \o from_utf8_lossy(Tail(b))
    ELSE <<Head(b)>> \o from_utf8_lossy(Tail(b))

\* The UTF-8 encoding a server applies to the text it sends.
RECURSIVE utf8_encode(_)
utf8_encode(s) ==
    IF s = <<>> THEN <<>>
    ELSE IF Head(s) = EAcute THEN <<LeadByte, ContByte>> \o utf8_encode(Tail(s))
    ELSE <<Head(s)>> \o utf8_encode(Tail(s))

\* str::trim
RECURSIVE trim_start(_)
trim_start(s) ==
    IF s # <<>> /\ Head(s) \in Whitespace THEN trim_start(Tail(s)) ELSE s

RECURSIVE trim_end(_)
trim_end(s) ==
    IF s # <<>> /\ s[Len(s)] \in Whitespace
    THEN trim_end(SubSeq(s, 1, Len(s) - 1))
    ELSE s

trim(s) == trim_end(trim_start(s))

\* str::find(c): index of the first occurrence, 0 for None
find(s, c) ==
    IF \E i \in 1..Len(s) : s[i] = c
    THEN CHOOSE i \in 1..Len(s) : s[i] = c /\ \A j \in 1..(i - 1) : s[j] # c
    ELSE 0

\* str::strip_prefix
strip_prefix(s, p) ==
    IF Len(s) >= Len(p) /\ SubSeq(s, 1, Len(p)) = p
    THEN [some |-> TRUE, rest |-> SubSeq(s, Len(p) + 1, Len(s))]
    ELSE [some |-> FALSE, rest |-> <<>>]

DataPrefix == <<"data:", " ">>
DoneLiteral == <<"[DONE]">>

----------------------------------------------------------------------------
\* JSON payloads.  A payload is a sequence of characters; the fixed ASCII
\* parts of the JSON documents are single elements.

OaOpen == "{\"choices\":[{\"delta\":{\"content\":\""
OaClose == "\"}}]}"
OaRole == "{\"choices\":[{\"delta\":{\"role\":\"assistant\"}}]}"
OaNoChoice == "{\"choices\":[]}"
AnOpen == "{\"type\":\"content_block_delta\",\"delta\":{\"text\":\""
AnClose == "\"}}"
AnNoText == "{\"type\":\"content_block_delta\",\"delta\":{\"partial_json\":\"\"}}"
AnStop == "{\"type\":\"message_stop\"}"
AnPing == "{\"type\":\"ping\"}"

JsonFragments ==
    {OaOpen, OaClose, OaRole, OaNoChoice, AnOpen, AnClose, AnNoText, AnStop,
     AnPing}

\* a character that may stand unescaped inside a JSON string
JsonStringChar(c) == c \notin JsonFragments /\ c \notin {LF, "\r", "\t"}

IsJsonString(s) == \A i \in 1..Len(s) : JsonStringChar(s[i])

NoneText == [some |-> FALSE, text |-> <<>>]
SomeText(t) == [some |-> TRUE, text |-> t]

\* serde_json::from_str::<OpenAiStreamChunk>: ok, and choices[i].delta.content
ParseOpenAiStreamChunk(data) ==
    IF Len(data) >= 2 /\ data[1] = OaOpen /\ data[Len(data)] = OaClose
       /\ IsJsonString(SubSeq(data, 2, Len(data) - 1))
    THEN [ok |-> TRUE, choices |-> <<SomeText(SubSeq(data, 2, Len(data) - 1))>>]
    ELSE IF data = <<OaRole>> THEN [ok |-> TRUE, choices |-> <<NoneText>>]
    ELSE IF data = <<OaNoChoice>> THEN [ok |-> TRUE, choices |-> <<>>]
    ELSE [ok |-> FALSE, choices |-> <<>>]

\* serde_json::from_str::<AnthropicStreamEvent>: ok, event_type, delta, delta.text
ParseAnthropicStreamEvent(data) ==
    IF Len(data) >= 2 /\ data[1] = AnOpen /\ data[Len(data)] = AnClose
       /\ IsJsonString(SubSeq(data, 2, Len(data) - 1))
    THEN [ok |-> TRUE, event_type |-> "content_block_delta", delta |-> TRUE,
          text |-> SomeText(SubSeq(data, 2, Len(data) - 1))]
    ELSE IF data = <<AnNoText>>
    THEN [ok |-> TRUE, event_type |-> "content_block_delta", delta |-> TRUE,
          text |-> NoneText]
    ELSE IF data = <<AnStop>>
    THEN [ok |-> TRUE, event_type |-> "message_stop", delta |-> FALSE,
          text |-> NoneText]
    ELSE IF data = <<AnPing>>
    THEN [ok |-> TRUE, event_type |-> "ping", delta |-> FALSE, text |-> NoneText]
    ELSE [ok |-> FALSE, event_type |-> "", delta |-> FALSE, text |-> NoneText]

----------------------------------------------------------------------------
\* Stream items: Ok(StreamEvent) or Err(anyhow::Error)

EvStart == [type |-> "Start", text |-> <<>>, status |-> 0]
EvDelta(t) == [type |-> "Delta", text |-> t, status |-> 0]
EvDone == [type |-> "Done", text |-> <<>>, status |-> 0]
ErrStatus(st, txt) == [type |-> "Err", text |-> txt, status |-> st]
ErrChunk == [type |-> "Err", text |-> <<"Failed to read chunk">>, status |-> 0]
ErrSend == [type |-> "Err", text |-> <<"Failed to send request">>, status |-> 0]

mut_is_success(st) == st >= 200

\* StatusCode::is_success
is_success(st) == st >= 200 /\ st <= 299

----------------------------------------------------------------------------
\* The line loop `while let Some(line_end) = buffer.find('\n')` of each
\* decoder: returns the buffer left, the events yielded, and whether the
\* generator returned.

\* the OpenAI line handler that takes `data:` for the prefix and trims
mut_OpenAiHandleLine(line) ==
    LET sp == strip_prefix(line, <<"data:">>)
        data == trim(sp.rest)
    IN
    IF line = <<>> \/ ~sp.some THEN [ev |-> <<>>, done |-> FALSE]
    ELSE IF data = DoneLiteral THEN [ev |-> <<EvDone>>, done |-> TRUE]
    ELSE LET parsed == ParseOpenAiStreamChunk(data) IN
         IF parsed.ok /\ parsed.choices # <<>> /\ parsed.choices[1].some
            /\ parsed.choices[1].text # <<>>
         THEN [ev |-> <<EvDelta(parsed.choices[1].text)>>, done |-> FALSE]
         ELSE [ev |-> <<>>, done |-> FALSE]

OpenAiHandleLine(line) ==
    LET sp == strip_prefix(line, DataPrefix) IN
    IF line = <<>> \/ ~sp.some THEN [ev |-> <<>>, done |-> FALSE]
    ELSE IF sp.rest = DoneLiteral THEN [ev |-> <<EvDone>>, done |-> TRUE]
    ELSE LET parsed == ParseOpenAiStreamChunk(sp.rest) IN
         IF parsed.ok /\ parsed.choices # <<>> /\ parsed.choices[1].some
            /\ parsed.choices[1].text # <<>>
         THEN [ev |-> <<EvDelta(parsed.choices[1].text)>>, done |-> FALSE]
         ELSE [ev |-> <<>>, done |-> FALSE]

\* the Anthropic line handler that returns the serde error (`?`) of a
\* payload it cannot parse
mut_AnthropicHandleLine(line) ==
    LET sp == strip_prefix(line, DataPrefix) IN
    IF line = <<>> \/ ~sp.some THEN [ev |-> <<>>, done |-> FALSE]
    ELSE LET event == ParseAnthropicStreamEvent(sp.rest) IN
         IF ~event.ok
         THEN [ev |-> <<[type |-> "Err", text |-> <<"Failed to parse event">>,
                         status |-> 0]>>,
               done |-> TRUE]
         ELSE IF event.event_type = "content_block_delta"
         THEN IF event.delta /\ event.text.some /\ event.text.text # <<>>
              THEN [ev |-> <<EvDelta(event.text.text)>>, done |-> FALSE]
              ELSE [ev |-> <<>>, done |-> FALSE]
         ELSE IF event.event_type = "message_stop"
         THEN [ev |-> <<EvDone>>, done |-> TRUE]
         ELSE [ev |-> <<>>, done |-> FALSE]

AnthropicHandleLine(line) ==
    LET sp == strip_prefix(line, DataPrefix) IN
    IF line = <<>> \/ ~sp.some THEN [ev |-> <<>>, done |-> FALSE]
    ELSE LET event == ParseAnthropicStreamEvent(sp.rest) IN
         IF ~event.ok THEN [ev |-> <<>>, done |-> FALSE]
         ELSE IF event.event_type = "content_block_delta"
         THEN IF event.delta /\ event.text.some /\ event.text.text # <<>>
              THEN [ev |-> <<EvDelta(event.text.text)>>, done |-> FALSE]
              ELSE [ev |-> <<>>, done |-> FALSE]
         ELSE IF event.event_type = "message_stop"
         THEN [ev |-> <<EvDone>>, done |-> TRUE]
         ELSE [ev |-> <<>>, done |-> FALSE]

HandleLine(prov, line) ==
    IF prov = "openai" THEN OpenAiHandleLine(line) ELSE AnthropicHandleLine(line)

\* the loop without the `return` after `yield StreamEvent::Done`
RECURSIVE mut_LineLoop(_, _, _)
mut_LineLoop(prov, buf, out) ==
    LET line_end == find(buf, LF) IN
    IF line_end = 0 THEN [buffer |-> buf, events |-> out, done |-> FALSE]
    ELSE mut_LineLoop(prov, SubSeq(buf, line_end + 1, Len(buf)),
                      out \o HandleLine(prov, trim(SubSeq(buf, 1, line_end - 1))).ev)

\* the loop as `if let Some(line_end)`: one line per chunk
mut_LineLoop_once(prov, buf, out) ==
    LET line_end == find(buf, LF) IN
    IF line_end = 0 THEN [buffer |-> buf, events |-> out, done |-> FALSE]
    ELSE LET h == HandleLine(prov, trim(SubSeq(buf, 1, line_end - 1)))
         IN [buffer |-> SubSeq(buf, line_end + 1, Len(buf)),
             events |-> out \o h.ev, done |-> h.done]

RECURSIVE LineLoop(_, _, _)
LineLoop(prov, buf, out) ==
    LET line_end == find(buf, LF) IN
    IF line_end = 0 THEN [buffer |-> buf, events |-> out, done |-> FALSE]
    ELSE LET line == trim(SubSeq(buf, 1, line_end - 1))
             rest == SubSeq(buf, line_end + 1, Len(buf))
             h == HandleLine(prov, line)
         IN IF h.done
            THEN [buffer |-> rest, events |-> out \o h.ev, done |-> TRUE]
            ELSE LineLoop(prov, rest, out \o h.ev)

----------------------------------------------------------------------------
\* What a server writes: a sequence of server-sent-event lines.  Every line
\* ends with a newline and every `data: ` line is followed by the blank line
\* that ends its event; a body whose end was not written lacks the newlines
\* after its last line.  A line of kind "event" is `event: message_start`; a
\* line of kind "bare" is a delta payload after `data:` without the space.

TextVocab == {<<>>, <<"Hello">>, <<EAcute>>}

LineVocab ==
    {[kind |-> "delta", text |-> t] : t \in TextVocab}
    \cup {[kind |-> k, text |-> <<>>] :
             k \in {"done", "stop", "other", "event", "bare"}}

IsDataLine(l) == l.kind \notin {"event", "bare"}

\* the kind of line that ends the stream of the provider
Terminator(prov) == IF prov = "openai" THEN "done" ELSE "stop"

EncodeLine(prov, l) ==
    CASE l.kind = "delta" ->
            DataPrefix
            \o <<IF prov = "openai" THEN OaOpen ELSE AnOpen>>
            \o l.text
            \o <<IF prov = "openai" THEN OaClose ELSE AnClose>>
      [] l.kind = "done" -> DataPrefix \o DoneLiteral
      [] l.kind = "stop" -> DataPrefix \o <<AnStop>>
      [] l.kind = "other" ->
            DataPrefix \o <<IF prov = "openai" THEN OaRole ELSE AnPing>>
      [] l.kind = "bare" ->
            <<"data:">>
            \o <<IF prov = "openai" THEN OaOpen ELSE AnOpen>>
            \o <<"Hello">>
            \o <<IF prov = "openai" THEN OaClose ELSE AnClose>>
      [] OTHER -> <<"event: message_start">>

LineEnd(l) == IF IsDataLine(l) THEN <<LF, LF>> ELSE <<LF>>

\* the text of the body
RECURSIVE BodyText(_, _, _)
BodyText(prov, ls, finalNewline) ==
    IF ls = <<>> THEN <<>>
    ELSE IF Len(ls) = 1
         THEN EncodeLine(prov, ls[1])
              \o (IF finalNewline THEN LineEnd(ls[1]) ELSE <<>>)
    ELSE EncodeLine(prov, Head(ls)) \o LineEnd(Head(ls))
         \o BodyText(prov, Tail(ls), finalNewline)

\* the bytes of the body
EncodeBody(prov, ls, finalNewline) == utf8_encode(BodyText(prov, ls, finalNewline))

Transcripts == UNION {[1..n -> LineVocab] : n \in 0..MaxBodyLines}

StatusCodes == {0, 200, 401}

----------------------------------------------------------------------------
\* One streaming exchange: the generator of stream_request.  Each step of
\* the generator is an operator from the state of the exchange, a record d,
\* to its next state; d.events collects what the stream has yielded.

Exchange ==
    [dprov |-> dprov, status |-> status, transcript |-> transcript,
     body |-> body, pos |-> pos, buffer |-> buffer, events |-> events,
     dpc |-> dpc]

SetExchangeInit(d) ==
    /\ dprov = d.dprov
    /\ status = d.status
    /\ transcript = d.transcript
    /\ body = d.body
    /\ pos = d.pos
    /\ buffer = d.buffer
    /\ events = d.events
    /\ dpc = d.dpc

SetExchange(d) ==
    /\ dprov' = d.dprov
    /\ status' = d.status
    /\ transcript' = d.transcript
    /\ body' = d.body
    /\ pos' = d.pos
    /\ buffer' = d.buffer
    /\ events' = d.events
    /\ dpc' = d.dpc

\* `.send().await.context("Failed to send ... request")?`
CanSendFail(d) == d.dpc = "init" /\ d.status = 0

\* the client that sends the request again when the send fails, and is
\* answered
mut_AfterSendFails(d) == [d EXCEPT !.status = 200]

AfterSendFails(d) ==
    [d EXCEPT !.events = Append(@, ErrSend), !.dpc = "closed"]

\* `if !response.status().is_success()`: the error carries the status and
\* the trimmed body text; `response.text().await.unwrap_or_default()` is
\* the empty string when the body cannot be read.
CanStatusFail(d) == d.dpc = "init" /\ d.status # 0 /\ ~is_success(d.status)

AfterStatusFailure(d, readable) ==
    LET text == IF readable THEN from_utf8_lossy(d.body) ELSE <<>> IN
    [d EXCEPT !.events = Append(@, ErrStatus(d.status, trim(text))),
              !.dpc = "closed"]

\* `yield StreamEvent::Start; let mut buffer = String::new();`
CanStreamStart(d) == d.dpc = "init" /\ d.status # 0 /\ is_success(d.status)

AfterStreamStart(d) ==
    [d EXCEPT !.events = Append(@, EvStart), !.buffer = <<>>, !.dpc = "reading"]

\* The sizes the next chunk may have: up to MaxChunk bytes, or all the rest.
ChunkSizes(remaining) ==
    {n \in 0..MaxChunk : n <= remaining} \cup {remaining}

\* `stream.next().await` is Some(Ok(chunk)): append the lossily decoded chunk,
\* then handle every complete line.
CanReadChunk(d) == d.dpc = "reading"

AfterReadChunk(d, n) ==
    LET chunk == SubSeq(d.body, d.pos + 1, d.pos + n)
        r == LineLoop(d.dprov, d.buffer \o from_utf8_lossy(chunk), <<>>)
    IN [d EXCEPT !.pos = @ + n,
                 !.buffer = r.buffer,
                 !.events = @ \o r.events,
                 !.dpc = IF r.done THEN "closed" ELSE "reading"]

\* `stream.next().await` is Some(Err(_)): `chunk.context("Failed to read chunk")?`
CanChunkError(d) == d.dpc = "reading"

AfterChunkError(d) ==
    [d EXCEPT !.events = Append(@, ErrChunk), !.dpc = "closed"]

\* the end of the stream without the final `yield StreamEvent::Done`
mut_AfterStreamEnd(d) == [d EXCEPT !.dpc = "closed"]

\* `stream.next().await` is None: the loop ends, `yield StreamEvent::Done`
CanStreamEnd(d) == d.dpc = "reading" /\ d.pos = Len(d.body)

AfterStreamEnd(d) ==
    [d EXCEPT !.events = Append(@, EvDone), !.dpc = "closed"]

\* The steps of an exchange whose consumer takes every item
SendFails ==
    /\ CanSendFail(Exchange)
    /\ SetExchange(AfterSendFails(Exchange))
    /\ UNCHANGED cvars
    /\ UNCHANGED xvars

StatusFailure ==
    /\ CanStatusFail(Exchange)
    /\ \E readable \in BOOLEAN :
          SetExchange(AfterStatusFailure(Exchange, readable))
    /\ UNCHANGED cvars
    /\ UNCHANGED xvars

StreamStart ==
    /\ CanStreamStart(Exchange)
    /\ SetExchange(AfterStreamStart(Exchange))
    /\ UNCHANGED cvars
    /\ UNCHANGED xvars

ReadChunk ==
    /\ CanReadChunk(Exchange)
    /\ \E n \in ChunkSizes(Len(body) - pos) :
          SetExchange(AfterReadChunk(Exchange, n))
    /\ UNCHANGED cvars
    /\ UNCHANGED xvars

ChunkError ==
    /\ CanChunkError(Exchange)
    /\ SetExchange(AfterChunkError(Exchange))
    /\ UNCHANGED cvars
    /\ UNCHANGED xvars

StreamEnd ==
    /\ CanStreamEnd(Exchange)
    /\ SetExchange(AfterStreamEnd(Exchange))
    /\ UNCHANGED cvars
    /\ UNCHANGED xvars

DecoderStep ==
    \/ SendFails
    \/ StatusFailure
    \/ StreamStart
    \/ ReadChunk
    \/ ChunkError
    \/ StreamEnd

----------------------------------------------------------------------------
\* The chat session: run_ai_chat_streaming

BASE_MESSAGES == 1
MAX_HISTORY_MESSAGES == 16

SYSTEM_PROMPT == <<"You are a thoughtful Bible assistant.">>

chat_message(role, content) == [role |-> role, content |-> content]

\* build_passage_text and the seed message `Passage:\n{passage}`
Passage == <<"John 11:35 Jesus wept.", LF>>
SeedMessage == chat_message("user", <<"Passage:", LF>> \o Passage)

\* trim_chat_history that evicts the newest messages instead of the oldest
mut_trim_newest(h, base_messages, max_recent) ==
    IF Len(h) <= base_messages + max_recent THEN h
    ELSE SubSeq(h, 1, base_messages + max_recent)

\* trim_chat_history that does not spare the base prefix
mut_trim_no_base(h, base_messages, max_recent) ==
    IF Len(h) <= base_messages + max_recent THEN h
    ELSE SubSeq(h, Len(h) - (base_messages + max_recent) + 1, Len(h))

\* trim_chat_history that leaves one message too many
mut_trim_off_by_one(h, base_messages, max_recent) ==
    IF Len(h) <= base_messages + max_recent + 1 THEN h
    ELSE SubSeq(h, 1, base_messages)
         \o SubSeq(h, Len(h) - max_recent + 1, Len(h))

\* trim_chat_history: `history.drain(base_messages..keep_from)`
trim_chat_history(h, base_messages, max_recent) ==
    IF Len(h) <= base_messages + max_recent THEN h
    ELSE LET keep_from ==
                 IF Len(h) >= max_recent THEN Len(h) - max_recent ELSE 0
         IN SubSeq(h, 1, base_messages) \o SubSeq(h, keep_from + 1, Len(h))

\* str::to_lowercase
LowerChar(c) ==
    IF c = "OpenAI" THEN "openai"
    ELSE IF c = "Anthropic" THEN "anthropic"
    ELSE IF c = "The" THEN "the"
    ELSE IF c = "LORD" THEN "lord"
    ELSE IF c = "God" THEN "god"
    ELSE c

to_lowercase(s) == [i \in 1..Len(s) |-> LowerChar(s[i])]

\* require_env: the variable is set
require_env(key, environment) == key \in environment

\* OpenAiClient::new and AnthropicClient::new
OpenAiClientNew(environment) == require_env("OPENAI_API_KEY", environment)
AnthropicClientNew(environment) == require_env("ANTHROPIC_API_KEY", environment)

\* AiProvider::from_name: the client of the named provider, if the name is
\* one and its credential is set
from_name(name, environment) ==
    IF name = <<"openai">>
    THEN [ok |-> OpenAiClientNew(environment), client |-> "openai"]
    ELSE IF name = <<"anthropic">>
    THEN [ok |-> AnthropicClientNew(environment), client |-> "anthropic"]
    ELSE [ok |-> FALSE, client |-> "none"]

\* no exchange: the stream of the last turn has been dropped
NoExchange ==
    [dprov |-> "none", status |-> 0, transcript |-> <<>>, body |-> <<>>,
     pos |-> 0, buffer |-> <<>>, events |-> <<>>, dpc |-> "closed"]

\* Option<T>
None == [some |-> FALSE, value |-> <<>>]
Some(v) == [some |-> TRUE, value |-> v]

NoRequest ==
    [provider |-> "none", model |-> <<>>, system |-> None, messages |-> <<>>,
     max_tokens |-> None, temperature |-> None]

\* ---- the request body: from_request of each client ----

\* OpenAiMessage::new
OpenAiMessage_new(role, content) == [role |-> role, content |-> content]

\* from_request of the OpenAI client without the system message
mut_OpenAi_from_request(req) ==
    [model |-> req.model,
     messages |-> [i \in 1..Len(req.messages) |->
                     OpenAiMessage_new(req.messages[i].role, req.messages[i].content)],
     max_tokens |-> req.max_tokens,
     temperature |-> req.temperature,
     stream |-> TRUE]

\* OpenAiChatCompletionRequest::from_request
OpenAi_from_request(req) ==
    LET system_messages ==
            IF req.system.some
            THEN <<OpenAiMessage_new("system", req.system.value)>>
            ELSE <<>>
    IN [model |-> req.model,
        messages |-> system_messages
                     \o [i \in 1..Len(req.messages) |->
                           OpenAiMessage_new(req.messages[i].role,
                                             req.messages[i].content)],
        max_tokens |-> req.max_tokens,
        temperature |-> req.temperature,
        stream |-> TRUE]

\* from_request of the Anthropic client that sends the system prompt the way
\* the OpenAI client does, as a first message
mut_Anthropic_from_request(req) ==
    [model |-> req.model,
     max_tokens |-> IF req.max_tokens.some THEN req.max_tokens.value ELSE 256,
     messages |-> (IF req.system.some
                   THEN <<[role |-> "system", content |-> req.system.value]>>
                   ELSE <<>>)
                  \o [i \in 1..Len(req.messages) |->
                        [role |-> req.messages[i].role,
                         content |-> req.messages[i].content]],
     system |-> None,
     stream |-> TRUE]

\* AnthropicMessageRequest::from_request
Anthropic_from_request(req) ==
    [model |-> req.model,
     max_tokens |-> IF req.max_tokens.some THEN req.max_tokens.value ELSE 256,
     messages |-> [i \in 1..Len(req.messages) |->
                     [role |-> req.messages[i].role,
                      content |-> req.messages[i].content]],
     system |-> req.system,
     stream |-> TRUE]

\* `from_request(request)` at the head of the client's stream_request
from_request(client, req) ==
    IF client = "openai" THEN OpenAi_from_request(req)
    ELSE Anthropic_from_request(req)

\* no request body: no exchange exists
NoWire == [model |-> <<>>, messages |-> <<>>, stream |-> FALSE]

\* no arguments: the specification is not about a session
NoArgs == [provider |-> <<>>, model |-> <<>>, max_tokens |-> 0, temperature |-> "0"]

NoTurn == [outcome |-> "none", text |-> <<>>, before |-> <<>>, prev |-> "none"]

\* how a line ended; `prev` is how the line before it ended
AfterLine(outcome, text, before) ==
    [outcome |-> outcome, text |-> text, before |-> before,
     prev |-> last_turn.outcome]

\* ---- what the user types and what the server answers ----

\* the ordinary line typed as line k
OrdinaryLine(k) == <<"hello", ToString(k)>>

CommandLines ==
    {<<>>, <<" ">>,
     <<"/exit">>, <<"/quit">>,
     <<"/reset">>, <<" ", "/reset", " ">>,
     <<"/help">>,
     <<"/model">>, <<"/model", " ", "gpt-4o">>,
     <<"/provider">>, <<"/provider", " ", "Anthropic">>,
     <<"/provider", " ", "openai">>, <<"/provider", " ", "bogus">>}

\* lines that begin with `/` and are not one of the commands as such:
\* `/foo`, `/reset now`, `/modelx`, `/providers`, `/provideranthropic`
SlashLines ==
    {<<"/foo">>, <<"/reset", " ", "now">>, <<"/model", "x">>, <<"/provider", "s">>,
     <<"/provider", "anthropic">>}

InputLines(k) ==
    CommandLines
    \cup {OrdinaryLine(k), <<OrdinaryLine(k)[1], ToString(k), " ">>}
    \cup (IF k <= MaxSlashLine THEN SlashLines ELSE {})

\* the complete answer to line k
FullTranscript(prov, k) ==
    <<[kind |-> "delta", text |-> <<"Once upon a">>],
      [kind |-> "delta", text |-> <<" time", ToString(k)>>],
      [kind |-> Terminator(prov), text |-> <<>>]>>

HappyResponse(prov, k) == [status |-> 200, transcript |-> FullTranscript(prov, k)]

Responses(prov, k) ==
    {HappyResponse(prov, k),
     [status |-> 200, transcript |-> <<[kind |-> Terminator(prov), text |-> <<>>]>>],
     [status |-> 200,
      transcript |-> <<[kind |-> "delta", text |-> <<"Once upon a">>]>>],
     [status |-> 401, transcript |-> <<[kind |-> "event", text |-> <<>>]>>],
     [status |-> 0, transcript |-> <<>>]}

\* ---- reading a line ----

\* a prompt that does not wait for the turn to end
mut_CanRead == lineNo < MaxLines

\* the prompt is reached only at the head of the loop, between turns
CanRead == pc = "Idle" /\ lineNo < MaxLines

\* the line is one of the free lines that follow the warm-up
TakeFree ==
    /\ freeLines < MaxFreeLines
    /\ freeLines' = freeLines + 1

Read(input_line) ==
    /\ lineNo' = lineNo + 1
    /\ last_line' = trim(input_line)
    /\ sink' = <<>>

\* the loop without the test for an empty line
mut_IsBlank(line) == FALSE

\* `line.is_empty()` of the trimmed input line
IsBlank(line) == line = <<>>

IsExit(line) == line = <<"/exit">> \/ line = <<"/quit">>
IsReset(line) == line = <<"/reset">>
IsHelp(line) == line = <<"/help">>
IsModel(line) == strip_prefix(line, <<"/model">>).some
IsProvider(line) == strip_prefix(line, <<"/provider">>).some
IsOrdinary(line) ==
    /\ ~IsBlank(line)
    /\ ~IsExit(line) /\ ~IsReset(line) /\ ~IsHelp(line)
    /\ ~IsModel(line) /\ ~IsProvider(line)

\* `lines.next_line().await?` is None: `break`
EndOfInput ==
    /\ pc = "Idle"
    /\ pc' = "Terminated"
    /\ UNCHANGED <<history, current_model, current_provider, response_text,
                   request, env, args, lineNo, freeLines, last_line, last_turn,
                   wire, sink, notice>>
    /\ UNCHANGED dvars
    /\ UNCHANGED xvars

\* `if line.is_empty() { continue; }`
BlankLine ==
    /\ CanRead
    /\ TakeFree
    /\ \E input_line \in InputLines(lineNo + 1) :
          /\ IsBlank(trim(input_line))
          /\ Read(input_line)
    /\ last_turn' = AfterLine("none", <<>>, <<>>)
    /\ notice' = ""
    /\ UNCHANGED <<pc, history, current_model, current_provider, response_text,
                   request, env, args, wire>>
    /\ UNCHANGED dvars
    /\ UNCHANGED xvars

\* the exit command that goes on to the next prompt (`continue`)
mut_AfterExit == "Idle"

\* where `break` out of the loop leads: the function returns
AfterExit == "Terminated"

\* `"/exit" | "/quit" => break`
ExitCommand ==
    /\ CanRead
    /\ TakeFree
    /\ \E input_line \in InputLines(lineNo + 1) :
          /\ IsExit(trim(input_line))
          /\ Read(input_line)
    /\ pc' = AfterExit
    /\ last_turn' = AfterLine("none", <<>>, <<>>)
    /\ notice' = ""
    /\ UNCHANGED <<history, current_model, current_provider, response_text,
                   request, env, args, wire>>
    /\ UNCHANGED dvars
    /\ UNCHANGED xvars

\* Vec::truncate that clears the vector
mut_truncate(h, len) == <<>>

\* Vec::truncate
truncate(h, len) == SubSeq(h, 1, IF Len(h) < len THEN Len(h) ELSE len)

\* `"/reset" => { history.truncate(BASE_MESSAGES); ... }`
ResetCommand ==
    /\ CanRead
    /\ TakeFree
    /\ \E input_line \in InputLines(lineNo + 1) :
          /\ IsReset(trim(input_line))
          /\ Read(input_line)
    /\ history' = truncate(history, BASE_MESSAGES)
    /\ last_turn' = AfterLine("reset", last_line, history)
    /\ notice' = "(chat reset)"
    /\ UNCHANGED <<pc, current_model, current_provider, response_text, request,
                   env, args, wire>>
    /\ UNCHANGED dvars
    /\ UNCHANGED xvars

\* `"/help" => { print_chat_help(output); continue; }`
HelpCommand ==
    /\ CanRead
    /\ TakeFree
    /\ \E input_line \in InputLines(lineNo + 1) :
          /\ IsHelp(trim(input_line))
          /\ Read(input_line)
    /\ last_turn' = AfterLine("none", <<>>, <<>>)
    /\ notice' = "Commands:"
    /\ UNCHANGED <<pc, history, current_model, current_provider, response_text,
                   request, env, args, wire>>
    /\ UNCHANGED dvars
    /\ UNCHANGED xvars

\* the model command without the test for an empty name
mut_AfterModelCommand(cur, model) == model

\* the model selected after `/model <model>`
AfterModelCommand(cur, model) == IF model = <<>> THEN cur ELSE model

\* `if let Some(rest) = line.strip_prefix("/model")`
ModelCommand ==
    /\ CanRead
    /\ TakeFree
    /\ \E input_line \in InputLines(lineNo + 1) :
          LET line == trim(input_line)
              model == trim(strip_prefix(line, <<"/model">>).rest)
          IN /\ ~IsExit(line) /\ ~IsReset(line) /\ ~IsHelp(line)
             /\ IsModel(line)
             /\ Read(input_line)
             /\ current_model' = AfterModelCommand(current_model, model)
             /\ notice' = IF model = <<>> THEN "Current model:" ELSE "Model set to"
    /\ last_turn' = AfterLine("none", <<>>, <<>>)
    /\ UNCHANGED <<pc, history, current_provider, response_text, request, env,
                   args, wire>>
    /\ UNCHANGED dvars
    /\ UNCHANGED xvars

\* the provider command that stores the name as typed
mut_AfterProviderCommand_typed(cur, provider_name) ==
    IF provider_name = <<>> THEN cur
    ELSE IF to_lowercase(provider_name) \in {<<"openai">>, <<"anthropic">>}
    THEN provider_name
    ELSE cur

\* the provider command without the check of the name
mut_AfterProviderCommand_unchecked(cur, provider_name) ==
    IF provider_name = <<>> THEN cur ELSE to_lowercase(provider_name)

\* the provider selected after `/provider <provider_name>`
AfterProviderCommand(cur, provider_name) ==
    IF provider_name = <<>> THEN cur
    ELSE IF to_lowercase(provider_name) \in {<<"openai">>, <<"anthropic">>}
    THEN to_lowercase(provider_name)
    ELSE cur

\* what the `/provider` command prints
ProviderNotice(provider_name) ==
    IF provider_name = <<>> THEN "Current provider:"
    ELSE IF to_lowercase(provider_name) \in {<<"openai">>, <<"anthropic">>}
    THEN "Provider set to"
    ELSE "Unknown provider:"

\* `if let Some(rest) = line.strip_prefix("/provider")`
ProviderCommand ==
    /\ CanRead
    /\ TakeFree
    /\ \E input_line \in InputLines(lineNo + 1) :
          LET line == trim(input_line)
              provider_name == trim(strip_prefix(line, <<"/provider">>).rest)
          IN /\ ~IsExit(line) /\ ~IsReset(line) /\ ~IsHelp(line)
             /\ ~IsModel(line)
             /\ IsProvider(line)
             /\ Read(input_line)
             /\ current_provider' =
                    AfterProviderCommand(current_provider, provider_name)
             /\ notice' = ProviderNotice(provider_name)
    /\ last_turn' = AfterLine("none", <<>>, <<>>)
    /\ UNCHANGED <<pc, history, current_model, response_text, request, env, args,
                   wire>>
    /\ UNCHANGED dvars
    /\ UNCHANGED xvars

\* the push of the user message without the retention after it
mut_WithUserMessage(h, line) == Append(h, chat_message("user", line))

\* the history after `history.push(user); trim_chat_history(..)`
WithUserMessage(h, line) ==
    trim_chat_history(Append(h, chat_message("user", line)),
                      BASE_MESSAGES, MAX_HISTORY_MESSAGES)

\* `history.pop()`
Pop(h) == IF h = <<>> THEN h ELSE SubSeq(h, 1, Len(h) - 1)

\* the session whose provider creation ends with `?`, as in
\* run_ai_single_streaming, instead of the match with `continue`
mut_AfterConfigError == "Failed"

\* where the session is after the `Err(e)` arm of the provider creation:
\* `continue`
AfterConfigError == "Idle"

\* An ordinary line whose provider cannot be created: the message is pushed,
\* the history trimmed, and the last message popped again.
ProviderCreationFails(input_line) ==
    /\ ~from_name(current_provider, env).ok
    /\ history' = Pop(WithUserMessage(history, trim(input_line)))
    /\ last_turn' = AfterLine("config", <<>>, history)
    /\ notice' = "Error:"
    /\ pc' = AfterConfigError
    /\ UNCHANGED <<response_text, request, wire>>
    /\ UNCHANGED dvars

\* An ordinary line whose provider is created: the request is built from the
\* history and the stream is created; `resp` is what the server will answer.
StartRequest(input_line, resp) ==
    LET provider == from_name(current_provider, env) IN
    /\ provider.ok
    /\ history' = WithUserMessage(history, trim(input_line))
    /\ request' = [provider |-> provider.client,
                   model |-> current_model,
                   system |-> Some(SYSTEM_PROMPT),
                   messages |-> history',
                   max_tokens |-> Some(args.max_tokens),
                   temperature |-> Some(args.temperature)]
    /\ wire' = from_request(provider.client, request')
    /\ response_text' = <<>>
    /\ pc' = "Awaiting"
    /\ last_turn' = AfterLine("none", <<>>, history)
    /\ notice' = ""
    /\ SetExchange([dprov |-> provider.client,
                    status |-> resp.status,
                    transcript |-> resp.transcript,
                    body |-> EncodeBody(provider.client, resp.transcript, TRUE),
                    pos |-> 0, buffer |-> <<>>, events |-> <<>>,
                    dpc |-> "init"])

\* an ordinary line of the warm-up: the server answers in full
WarmUpLine ==
    /\ CanRead
    /\ freeLines = 0
    /\ LET input_line == OrdinaryLine(lineNo + 1) IN
          /\ Read(input_line)
          /\ \/ ProviderCreationFails(input_line)
             \/ StartRequest(input_line,
                             HappyResponse(from_name(current_provider, env).client,
                                           lineNo + 1))
    /\ UNCHANGED <<current_model, current_provider, env, args, freeLines>>
    /\ UNCHANGED xvars

\* an ordinary line after the warm-up: the server answers anything
UserLine ==
    /\ CanRead
    /\ TakeFree
    /\ \E input_line \in InputLines(lineNo + 1) :
          /\ IsOrdinary(trim(input_line))
          /\ Read(input_line)
          /\ \/ ProviderCreationFails(input_line)
             \/ \E resp \in Responses(from_name(current_provider, env).client,
                                      lineNo + 1) :
                   StartRequest(input_line, resp)
    /\ UNCHANGED <<current_model, current_provider, env, args>>
    /\ UNCHANGED xvars

\* ---- consuming the stream: `while let Some(event) = stream.next().await` ----

\* the match on the items one step of the generator yields: the text
\* accumulated, and how the loop is left ("" while it goes on)
\* the loop that prints the answer only once the stream is Done
RECURSIVE mut_ConsumeItems(_, _, _)
mut_ConsumeItems(text, out, items) ==
    IF items = <<>> THEN [text |-> text, out |-> out, left |-> ""]
    ELSE IF Head(items).type = "Start" THEN mut_ConsumeItems(text, out, Tail(items))
    ELSE IF Head(items).type = "Delta"
         THEN mut_ConsumeItems(text \o Head(items).text, out, Tail(items))
    ELSE IF Head(items).type = "Done"
         THEN [text |-> text, out |-> out \o <<text>>, left |-> "done"]
    ELSE [text |-> text, out |-> out, left |-> "error"]

\* `out` is what `print!("{}", text)` has written
RECURSIVE ConsumeItems(_, _, _)
ConsumeItems(text, out, items) ==
    IF items = <<>> THEN [text |-> text, out |-> out, left |-> ""]
    ELSE IF Head(items).type = "Start" THEN ConsumeItems(text, out, Tail(items))
    ELSE IF Head(items).type = "Delta"
         THEN ConsumeItems(text \o Head(items).text,
                           Append(out, Head(items).text), Tail(items))
    ELSE IF Head(items).type = "Done"
         THEN [text |-> text, out |-> out, left |-> "done"]
    ELSE [text |-> text, out |-> out, left |-> "error"]

\* the history once the loop is left, without the test of the text
mut_AfterLoop(h, text, left) ==
    trim_chat_history(Append(h, chat_message("assistant", text)),
                      BASE_MESSAGES, MAX_HISTORY_MESSAGES)

\* the history once the loop is left (`if !response_text.is_empty()`)
AfterLoop(h, text, left) ==
    IF text # <<>>
    THEN trim_chat_history(Append(h, chat_message("assistant", text)),
                           BASE_MESSAGES, MAX_HISTORY_MESSAGES)
    ELSE h

\* the loop whose error arm returns the error (`?`) instead of `break`
mut_PcAfterLoop(left) == IF left = "error" THEN "Terminated" ELSE "Idle"

\* where the session is once the loop is left: both the Done arm and the
\* Err arm `break`, and the outer loop goes on to the next prompt
PcAfterLoop(left) == "Idle"

\* One poll of the stream: the generator takes the step to d, the loop
\* handles what it yielded, and the turn ends if the loop is left.
Poll(d) ==
    LET items == SubSeq(d.events, Len(events) + 1, Len(d.events))
        c == ConsumeItems(response_text, sink, items)
        left == IF c.left = "" /\ d.dpc = "closed" THEN "end" ELSE c.left
    IN IF left = ""
       THEN /\ SetExchange(d)
            /\ response_text' = c.text
            /\ sink' = c.out
            /\ UNCHANGED <<pc, history, request, last_turn, wire, notice>>
       ELSE /\ SetExchange(NoExchange)
            /\ response_text' = <<>>
            /\ request' = NoRequest
            /\ wire' = NoWire
            /\ sink' = c.out
            /\ history' = AfterLoop(history, c.text, left)
            /\ pc' = PcAfterLoop(left)
            /\ notice' = IF left = "error" THEN "Error:" ELSE notice
            /\ last_turn' = [outcome |-> left, text |-> c.text,
                             before |-> last_turn.before,
                             prev |-> last_turn.prev]

Polling ==
    /\ pc = "Awaiting"
    /\ UNCHANGED <<current_model, current_provider, env, args, lineNo,
                   freeLines, last_line>>
    /\ UNCHANGED xvars

PollSendFails ==
    /\ Polling
    /\ CanSendFail(Exchange)
    /\ Poll(AfterSendFails(Exchange))

PollStatusFailure ==
    /\ Polling
    /\ CanStatusFail(Exchange)
    /\ \E readable \in BOOLEAN : Poll(AfterStatusFailure(Exchange, readable))

PollStreamStart ==
    /\ Polling
    /\ CanStreamStart(Exchange)
    /\ Poll(AfterStreamStart(Exchange))

PollReadChunk ==
    /\ Polling
    /\ CanReadChunk(Exchange)
    /\ \E n \in ChunkSizes(Len(body) - pos) : Poll(AfterReadChunk(Exchange, n))

PollChunkError ==
    /\ Polling
    /\ freeLines > 0
    /\ CanChunkError(Exchange)
    /\ Poll(AfterChunkError(Exchange))

PollStreamEnd ==
    /\ Polling
    /\ CanStreamEnd(Exchange)
    /\ Poll(AfterStreamEnd(Exchange))

\* ---- the session ----

Init ==
    /\ args \in [provider : {<<"openai">>, <<"anthropic">>},
                 model : {<<"gpt-4o-mini">>},
                 max_tokens : {256},
                 temperature : {"0.7"}]
    /\ env \in {{}, {"OPENAI_API_KEY"}, {"OPENAI_API_KEY", "ANTHROPIC_API_KEY"}}
    /\ current_model = args.model
    /\ current_provider = args.provider
    /\ history = <<SeedMessage>>
    /\ pc = "Idle"
    /\ response_text = <<>>
    /\ request = NoRequest
    /\ lineNo = 0
    /\ freeLines = 0
    /\ last_line = <<>>
    /\ last_turn = NoTurn
    /\ wire = NoWire
    /\ sink = <<>>
    /\ notice = ""
    /\ SetExchangeInit(NoExchange)
    /\ app = [tpc |-> "none"]
    /\ search = [spc |-> "none"]

Next ==
    \/ EndOfInput
    \/ BlankLine
    \/ ExitCommand
    \/ ResetCommand
    \/ HelpCommand
    \/ ModelCommand
    \/ ProviderCommand
    \/ WarmUpLine
    \/ UserLine
    \/ PollSendFails
    \/ PollStatusFailure
    \/ PollStreamStart
    \/ PollReadChunk
    \/ PollChunkError
    \/ PollStreamEnd

Spec == Init /\ [][Next]_vars

----------------------------------------------------------------------------
\* Specification of run_ai: the chat session when `--chat` is given, the
\* single request of run_ai_single_streaming when it is not. The single
\* request is at "Single" once the verses are printed, at "AwaitingSingle"
\* while its stream is consumed, and ends "Terminated" when the function
\* returns Ok(()) or "Failed" when it returns an error to its caller.

\* build_ai_prompt
build_ai_prompt ==
    <<"You are a helpful assistant. Provide a concise reflection on the passage below.",
      LF, LF, "Passage:", LF>> \o Passage \o <<LF, "Response:">>

\* the states the generator of the exchange can be in after its next step
DecoderSteps(d) ==
    (IF CanSendFail(d) THEN {AfterSendFails(d)} ELSE {})
    \cup (IF CanStatusFail(d)
          THEN {AfterStatusFailure(d, readable) : readable \in BOOLEAN}
          ELSE {})
    \cup (IF CanStreamStart(d) THEN {AfterStreamStart(d)} ELSE {})
    \cup (IF CanReadChunk(d)
          THEN {AfterReadChunk(d, n) : n \in ChunkSizes(Len(d.body) - d.pos)}
          ELSE {})
    \cup (IF CanChunkError(d) THEN {AfterChunkError(d)} ELSE {})
    \cup (IF CanStreamEnd(d) THEN {AfterStreamEnd(d)} ELSE {})

\* how run_ai_single_streaming returns once its loop is left: `event?`
\* returns the error, Done and the end of the stream lead to `Ok(())`
SingleAfterLoop(left) == IF left = "error" THEN "Failed" ELSE "Terminated"

\* `let provider = AiProvider::from_name(&args.provider)?;` and, when the
\* provider is created, the request and its stream
SingleStart ==
    /\ pc = "Single"
    /\ LET provider == from_name(args.provider, env) IN
       IF ~provider.ok
       THEN /\ pc' = "Failed"
            /\ last_turn' = AfterLine("config", <<>>, <<>>)
            /\ UNCHANGED <<response_text, request, wire, notice>>
            /\ UNCHANGED dvars
       ELSE /\ request' = [provider |-> provider.client,
                           model |-> args.model,
                           system |-> Some(SYSTEM_PROMPT),
                           messages |-> <<chat_message("user", build_ai_prompt)>>,
                           max_tokens |-> Some(args.max_tokens),
                           temperature |-> Some(args.temperature)]
            /\ wire' = from_request(provider.client, request')
            /\ response_text' = <<>>
            /\ pc' = "AwaitingSingle"
            /\ last_turn' = AfterLine("none", <<>>, <<>>)
            /\ notice' = ""
            /\ \E resp \in Responses(provider.client, 1) :
                  SetExchange([dprov |-> provider.client,
                               status |-> resp.status,
                               transcript |-> resp.transcript,
                               body |-> EncodeBody(provider.client,
                                                   resp.transcript, TRUE),
                               pos |-> 0, buffer |-> <<>>, events |-> <<>>,
                               dpc |-> "init"])
    /\ UNCHANGED <<history, current_model, current_provider, env, args, lineNo,
                   freeLines, last_line, sink>>
    /\ UNCHANGED xvars

\* one poll of the stream by the loop of run_ai_single_streaming
SinglePoll ==
    /\ pc = "AwaitingSingle"
    /\ \E d \in DecoderSteps(Exchange) :
          LET items == SubSeq(d.events, Len(events) + 1, Len(d.events))
              c == ConsumeItems(response_text, sink, items)
              left == IF c.left = "" /\ d.dpc = "closed" THEN "end" ELSE c.left
          IN IF left = ""
             THEN /\ SetExchange(d)
                  /\ response_text' = c.text
                  /\ sink' = c.out
                  /\ UNCHANGED <<pc, request, last_turn, wire>>
             ELSE /\ SetExchange(NoExchange)
                  /\ response_text' = c.text
                  /\ sink' = c.out
                  /\ request' = NoRequest
                  /\ wire' = NoWire
                  /\ pc' = SingleAfterLoop(left)
                  /\ last_turn' = [outcome |-> left, text |-> c.text,
                                   before |-> <<>>, prev |-> last_turn.prev]
    /\ UNCHANGED <<history, current_model, current_provider, env, args, lineNo,
                   freeLines, last_line, notice>>
    /\ UNCHANGED xvars

\* run_ai: `if args.chat { run_ai_chat_streaming } else { run_ai_single_streaming }`
InitAi ==
    /\ args \in [provider : {<<"openai">>, <<"anthropic">>},
                 model : {<<"gpt-4o-mini">>},
                 max_tokens : {256},
                 temperature : {"0.7"}]
    /\ env \in {{}, {"OPENAI_API_KEY"}, {"OPENAI_API_KEY", "ANTHROPIC_API_KEY"}}
    /\ current_model = args.model
    /\ current_provider = args.provider
    /\ \E chat \in BOOLEAN :
          /\ pc = (IF chat THEN "Idle" ELSE "Single")
          /\ history = (IF chat THEN <<SeedMessage>> ELSE <<>>)
    /\ response_text = <<>>
    /\ request = NoRequest
    /\ lineNo = 0
    /\ freeLines = 0
    /\ last_line = <<>>
    /\ last_turn = NoTurn
    /\ wire = NoWire
    /\ sink = <<>>
    /\ notice = ""
    /\ SetExchangeInit(NoExchange)
    /\ app = [tpc |-> "none"]
    /\ search = [spc |-> "none"]

NextAi ==
    \/ Next
    \/ SingleStart
    \/ SinglePoll

SpecAi == InitAi /\ [][NextAi]_vars

----------------------------------------------------------------------------
\* Specification of one exchange, for every provider, status, body and
\* chunking.

InitDecoder ==
    /\ dprov \in {"openai", "anthropic"}
    /\ status \in StatusCodes
    /\ transcript \in Transcripts
    /\ \E finalNewline \in BOOLEAN :
          body = EncodeBody(dprov, transcript, finalNewline)
    /\ pos = 0
    /\ buffer = <<>>
    /\ events = <<>>
    /\ dpc = "init"
    /\ pc = "Terminated"
    /\ history = <<>>
    /\ current_model = <<>>
    /\ current_provider = <<>>
    /\ response_text = <<>>
    /\ request = NoRequest
    /\ env = {}
    /\ args = NoArgs
    /\ lineNo = 0
    /\ freeLines = 0
    /\ last_line = <<>>
    /\ last_turn = NoTurn
    /\ wire = NoWire
    /\ sink = <<>>
    /\ notice = ""
    /\ app = [tpc |-> "none"]
    /\ search = [spc |-> "none"]

NextDecoder == DecoderStep

SpecDecoder == InitDecoder /\ [][NextDecoder]_vars

----------------------------------------------------------------------------
\* Specification of the translation of a ProviderRequest into the request
\* body of each client, for every request of the bounds.

MessageVocab ==
    {chat_message(r, c) : r \in {"user", "assistant"}, c \in {<<"a">>, <<"b">>}}

Requests ==
    [provider : {"none"},
     model : {<<"gpt-4o-mini">>},
     system : {None, Some(SYSTEM_PROMPT)},
     messages : UNION {[1..n -> MessageVocab] : n \in 0..MaxMessages},
     max_tokens : {None, Some(100)},
     temperature : {None, Some("0.7")}]

InitTranslate ==
    /\ request \in Requests
    /\ wire = NoWire
    /\ pc = "Terminated"
    /\ history = <<>>
    /\ current_model = <<>>
    /\ current_provider = <<>>
    /\ response_text = <<>>
    /\ env = {}
    /\ args = NoArgs
    /\ lineNo = 0
    /\ freeLines = 0
    /\ last_line = <<>>
    /\ last_turn = NoTurn
    /\ sink = <<>>
    /\ notice = ""
    /\ SetExchangeInit(NoExchange)
    /\ app = [tpc |-> "none"]
    /\ search = [spc |-> "none"]

\* `OpenAiChatCompletionRequest::from_request(request)`
TranslateOpenAi ==
    /\ wire = NoWire
    /\ wire' = from_request("openai", request)
    /\ dprov' = "openai"
    /\ UNCHANGED <<status, transcript, body, pos, buffer, events, dpc>>
    /\ UNCHANGED <<pc, history, current_model, current_provider, response_text,
                   request, env, args, lineNo, freeLines, last_line, last_turn,
                   sink, notice>>
    /\ UNCHANGED xvars

\* `AnthropicMessageRequest::from_request(request)`
TranslateAnthropic ==
    /\ wire = NoWire
    /\ wire' = from_request("anthropic", request)
    /\ dprov' = "anthropic"
    /\ UNCHANGED <<status, transcript, body, pos, buffer, events, dpc>>
    /\ UNCHANGED <<pc, history, current_model, current_provider, response_text,
                   request, env, args, lineNo, freeLines, last_line, last_turn,
                   sink, notice>>
    /\ UNCHANGED xvars

NextTranslate == TranslateOpenAi \/ TranslateAnthropic

SpecTranslate == InitTranslate /\ [][NextTranslate]_vars

----------------------------------------------------------------------------
\* The reader: tui::App, its update function, and the loop of run_app that
\* draws (render sets the content height) and then handles one event.
\* `tpc` is the position in that loop; `overflow` records that a u16
\* addition exceeded 65535 (a panic in a build with overflow checks, a
\* wrapped value in one without).

\* the first books of BOOKS, with their aliases
BOOKS ==
    <<[name |-> "Genesis", aliases |-> {"gen", "ge", "gn"}],
      [name |-> "Exodus", aliases |-> {"ex", "exo", "exod"}]>>

\* normalize_book: the name of the first book whose name or alias has the
\* key of the input; normalize_key keeps the letters, digits and blanks of
\* the input, in lower case
normalize_book(input) ==
    LET normalize_key(str) ==
            CASE str = "Genesis" -> "genesis"
              [] str = "Exodus" -> "exodus"
              [] str = "Exod." -> "exod"
              [] OTHER -> str
        key == normalize_key(input)
        hit(i) == normalize_key(BOOKS[i].name) = key \/ key \in BOOKS[i].aliases
    IN IF \E i \in 1..Len(BOOKS) : hit(i)
       THEN Some(BOOKS[CHOOSE i \in 1..Len(BOOKS) :
                          hit(i) /\ \A j \in 1..(i - 1) : ~hit(j)].name)
       ELSE None

\* load_verses returns the verses in the order of the file, and fails on an
\* empty file; the text of a verse of the reader is a string
ReaderFiles ==
    LET long == "In the beginning God created the heaven and the earth. And the earth was without form, and void."
        short == "Jesus wept."
        ReaderVerses ==
            {[book |-> "Genesis", chapter |-> 1, verse |-> 1, text |-> long],
             [book |-> "Genesis", chapter |-> 1, verse |-> 2, text |-> short],
             [book |-> "Genesis", chapter |-> 2, verse |-> 1, text |-> short],
             [book |-> "Exodus", chapter |-> 1, verse |-> 1, text |-> long]}
    IN UNION {[1..n -> ReaderVerses] : n \in 1..MaxVerses}

\* verses::max_chapter
max_chapter(verses, book) ==
    LET chapters == {verses[i].chapter : i \in {j \in 1..Len(verses) :
                                                    verses[j].book = book}}
    IN IF chapters = {} THEN None
       ELSE Some(CHOOSE c \in chapters : \A d \in chapters : d <= c)

\* App::new
App_new(verses, start_book) ==
    LET normalized == IF start_book.some THEN normalize_book(start_book.value)
                      ELSE None
        initial_book == IF normalized.some THEN normalized.value ELSE "Genesis"
        found == {i \in 1..Len(BOOKS) : BOOKS[i].name = initial_book}
        book_idx == IF found = {} THEN 1 ELSE CHOOSE i \in found : TRUE
        current_book == BOOKS[book_idx].name
        last == max_chapter(verses, current_book)
    IN [tpc |-> "draw",
        mode |-> "Reader",
        books |-> book_idx,
        current_book |-> current_book,
        current_chapter |-> 1,
        max_chapter |-> IF last.some THEN last.value ELSE 1,
        verses |-> verses,
        chapter_verses |->
            SelectSeq(verses, LAMBDA v : v.book = current_book /\ v.chapter = 1),
        scroll_offset |-> 0,
        content_height |-> 0,
        should_quit |-> FALSE,
        overflow |-> FALSE]

\* App::load_chapter: the verses of the current book and chapter, then the
\* stable sort `sort_by_key(|v| v.verse)`
load_chapter(a) ==
    LET vs == SelectSeq(a.verses, LAMBDA v : /\ v.book = a.current_book
                                             /\ v.chapter = a.current_chapter)
        rank(i) == 1 + Cardinality({j \in 1..Len(vs) :
                                       \/ vs[j].verse < vs[i].verse
                                       \/ vs[j].verse = vs[i].verse /\ j < i})
    IN [a EXCEPT !.chapter_verses =
           [k \in 1..Len(vs) |-> vs[CHOOSE i \in 1..Len(vs) : rank(i) = k]]]

\* App::next_book and App::prev_book
next_book(a) ==
    [a EXCEPT !.books = IF a.books >= Len(BOOKS) THEN 1 ELSE a.books + 1]

prev_book(a) ==
    [a EXCEPT !.books = IF a.books = 1 THEN Len(BOOKS) ELSE a.books - 1]

\* App::load_selected_book
load_selected_book(a) ==
    LET name == BOOKS[a.books].name
        last == max_chapter(a.verses, name)
    IN load_chapter([a EXCEPT !.current_book = name,
                              !.max_chapter = IF last.some THEN last.value ELSE 1,
                              !.current_chapter = 1,
                              !.scroll_offset = 0])

\* App::next_chapter and App::prev_chapter
next_chapter(a) ==
    IF a.current_chapter < a.max_chapter
    THEN load_chapter([a EXCEPT !.current_chapter = @ + 1, !.scroll_offset = 0])
    ELSE a

prev_chapter(a) ==
    IF a.current_chapter > 1
    THEN load_chapter([a EXCEPT !.current_chapter = @ - 1, !.scroll_offset = 0])
    ELSE a

\* the estimate of the lines of the chapter in calculate_max_scroll:
\* `((text_len / 60) + 1) as u16` with text_len = v.text.len() + 8, summed,
\* before the sum is cut to a u16
RECURSIVE estimated_lines(_)
estimated_lines(vs) ==
    LET str_len(text) == IF text = "Jesus wept." THEN 11 ELSE 96 IN
    IF vs = <<>> THEN 0
    ELSE ((((str_len(Head(vs).text) + 8) \div 60) + 1) % 65536)
         + estimated_lines(Tail(vs))

\* App::calculate_max_scroll
calculate_max_scroll(a) ==
    LET lines == estimated_lines(a.chapter_verses) % 65536 IN
    IF lines >= a.content_height THEN lines - a.content_height ELSE 0

\* App::set_content_height
set_content_height(a, height) == [a EXCEPT !.content_height = height]

\* App::scroll_down: `(self.scroll_offset + amount).min(max_scroll)`
scroll_down(a, amount) ==
    LET max_scroll == calculate_max_scroll(a)
        sum == a.scroll_offset + amount
        wrapped == sum % 65536
    IN [a EXCEPT !.scroll_offset = IF wrapped <= max_scroll THEN wrapped
                                   ELSE max_scroll,
                 !.overflow = @ \/ sum >= 65536
                              \/ estimated_lines(a.chapter_verses) >= 65536]

\* App::scroll_up and App::scroll_to_bottom
scroll_up(a, amount) ==
    [a EXCEPT !.scroll_offset = IF @ >= amount THEN @ - amount ELSE 0]

scroll_to_bottom(a) ==
    [a EXCEPT !.scroll_offset = calculate_max_scroll(a),
              !.overflow = @ \/ estimated_lines(a.chapter_verses) >= 65536]

\* App::update
update(a, msg) ==
    LET page == IF a.content_height >= 2 THEN a.content_height - 2 ELSE 0 IN
    CASE msg = "Quit" -> [a EXCEPT !.should_quit = TRUE]
      [] msg = "SwitchMode" ->
            [a EXCEPT !.mode = IF @ = "Books" THEN "Reader" ELSE "Books"]
      [] msg = "NextItem" ->
            IF a.mode = "Books" THEN next_book(a) ELSE scroll_down(a, 1)
      [] msg = "PrevItem" ->
            IF a.mode = "Books" THEN prev_book(a) ELSE scroll_up(a, 1)
      [] msg = "NextChapter" -> next_chapter(a)
      [] msg = "PrevChapter" -> prev_chapter(a)
      [] msg = "ScrollDown" -> scroll_down(a, 1)
      [] msg = "ScrollUp" -> scroll_up(a, 1)
      [] msg = "PageDown" -> scroll_down(a, page)
      [] msg = "PageUp" -> scroll_up(a, page)
      [] msg = "GoToTop" -> [a EXCEPT !.scroll_offset = 0]
      [] msg = "GoToBottom" -> scroll_to_bottom(a)
      [] msg = "SelectBook" ->
            IF a.mode = "Books"
            THEN [load_selected_book(a) EXCEPT !.mode = "Reader"]
            ELSE a
      [] OTHER -> a

\* events::key_to_message
key_to_message(key, mode) ==
    IF key = "q" THEN "Quit"
    ELSE IF key = "Tab" THEN "SwitchMode"
    ELSE IF mode = "Books"
    THEN CASE key = "j" -> "NextItem"
           [] key = "k" -> "PrevItem"
           [] key = "Enter" -> "SelectBook"
           [] key = "g" -> "GoToTop"
           [] key = "G" -> "GoToBottom"
           [] OTHER -> "None"
    ELSE CASE key = "j" -> "ScrollDown"
           [] key = "k" -> "ScrollUp"
           [] key = "PageDown" -> "PageDown"
           [] key = "PageUp" -> "PageUp"
           [] key = "n" -> "NextChapter"
           [] key = "p" -> "PrevChapter"
           [] key = "g" -> "GoToTop"
           [] key = "G" -> "GoToBottom"
           [] key = "h" -> "SwitchMode"
           [] OTHER -> "None"

\* `terminal.draw(|frame| render(frame, app))`: render sets the content
\* height to the height of the area of the verses less 2
Draw ==
    /\ app.tpc = "draw"
    /\ \E height \in {1, 5, 8, 65534} :
          app' = [set_content_height(app, IF height >= 2 THEN height - 2 ELSE 0)
                     EXCEPT !.tpc = "events"]
    /\ UNCHANGED <<dvars, cvars, search>>

\* handle_events: a key that arrives in time is turned into a message and
\* the app updated ("x" is a key without a binding); the loop of run_app
\* ends when should_quit is set
HandleEvents ==
    /\ app.tpc = "events"
    /\ \E key \in {"q", "Tab", "j", "k", "Enter", "g", "G", "PageDown", "PageUp",
                   "n", "p", "h", "x", "no key"} :
          LET a == IF key = "no key" THEN app
                   ELSE update(app, key_to_message(key, app.mode))
          IN app' = [a EXCEPT !.tpc = IF a.should_quit THEN "quit" ELSE "draw"]
    /\ UNCHANGED <<dvars, cvars, search>>

InitTui ==
    /\ \E verses \in ReaderFiles, start_book \in {None, Some("Exod."), Some("Nowhere")} :
          app = App_new(verses, start_book)
    /\ search = [spc |-> "none"]
    /\ pc = "Terminated"
    /\ history = <<>>
    /\ current_model = <<>>
    /\ current_provider = <<>>
    /\ response_text = <<>>
    /\ request = NoRequest
    /\ env = {}
    /\ args = NoArgs
    /\ lineNo = 0
    /\ freeLines = 0
    /\ last_line = <<>>
    /\ last_turn = NoTurn
    /\ wire = NoWire
    /\ sink = <<>>
    /\ notice = ""
    /\ SetExchangeInit(NoExchange)

SpecTui == InitTui /\ [][Draw \/ HandleEvents]_vars

----------------------------------------------------------------------------
\* The search command: run_search over a verse file, a query, an optional
\* book and a limit.  The text of a verse is a sequence of words.

\* str::contains
contains(text, needle) ==
    \E i \in 0..(Len(text) - Len(needle)) :
        SubSeq(text, i + 1, i + Len(needle)) = needle

SearchFiles ==
    LET SearchVerses ==
            {[book |-> "Genesis", chapter |-> 1, verse |-> 1,
              text |-> <<"God", "created">>],
             [book |-> "Genesis", chapter |-> 1, verse |-> 2,
              text |-> <<"the", "earth">>],
             [book |-> "Exodus", chapter |-> 1, verse |-> 1,
              text |-> <<"The", "LORD", "God">>]}
    IN UNION {[1..n -> SearchVerses] : n \in 1..MaxVerses}

\* the loop `for verse in &verses` of run_search from verse i on
RECURSIVE SearchLoop(_, _, _, _, _, _)
SearchLoop(verses, i, needle, book_filter, limit, matches) ==
    IF i > Len(verses) THEN matches
    ELSE IF book_filter.some /\ verses[i].book # book_filter.value
    THEN SearchLoop(verses, i + 1, needle, book_filter, limit, matches)
    ELSE LET pushed == IF contains(to_lowercase(verses[i].text), needle)
                       THEN Append(matches, verses[i])
                       ELSE matches
         IN IF Len(pushed) >= limit THEN pushed
            ELSE SearchLoop(verses, i + 1, needle, book_filter, limit, pushed)

\* run_search: `printed` is the verses printed, none with "No matches found."
RunSearch ==
    /\ search.spc = "start"
    /\ LET needle == to_lowercase(search.query)
           book_filter == IF search.book.some
                          THEN normalize_book(search.book.value)
                          ELSE None
       IN IF search.book.some /\ ~book_filter.some
          THEN search' = [search EXCEPT !.spc = "failed"]
          ELSE search' =
                 [search EXCEPT
                    !.spc = "done",
                    !.printed = SearchLoop(search.verses, 1, needle, book_filter,
                                           search.limit, <<>>)]
    /\ UNCHANGED <<dvars, cvars, app>>

InitSearch ==
    /\ search \in [spc : {"start"},
                   verses : SearchFiles,
                   query : {<<"God">>, <<"the">>, <<"LORD", "god">>, <<>>},
                   book : {None, Some("Genesis"), Some("ex"), Some("Nowhere")},
                   limit : 0..MaxVerses,
                   printed : {<<>>}]
    /\ app = [tpc |-> "none"]
    /\ pc = "Terminated"
    /\ history = <<>>
    /\ current_model = <<>>
    /\ current_provider = <<>>
    /\ response_text = <<>>
    /\ request = NoRequest
    /\ env = {}
    /\ args = NoArgs
    /\ lineNo = 0
    /\ freeLines = 0
    /\ last_line = <<>>
    /\ last_turn = NoTurn
    /\ wire = NoWire
    /\ sink = <<>>
    /\ notice = ""
    /\ SetExchangeInit(NoExchange)

SpecSearch == InitSearch /\ [][RunSearch]_vars

----------------------------------------------------------------------------
\* Vocabulary of the properties of one exchange

RECURSIVE CountType(_, _)
CountType(evs, ty) ==
    IF evs = <<>> THEN 0
    ELSE (IF Head(evs).type = ty THEN 1 ELSE 0) + CountType(Tail(evs), ty)

IsDelta(e) == e.type = "Delta"
IsTextLine(l) == l.kind = "delta" /\ l.text # <<>>

\* the texts of the Deltas yielded, in order
DeltaTexts(evs) ==
    LET ds == SelectSeq(evs, IsDelta) IN [i \in 1..Len(ds) |-> ds[i].text]

\* the texts of the lines that carry a non-empty text, in order
LineTexts(ls) ==
    LET ts == SelectSeq(ls, IsTextLine) IN [i \in 1..Len(ts) |-> ts[i].text]

\* index of the first terminator line of the provider, 0 if there is none
FirstTerminator(prov, ls) ==
    IF \E i \in 1..Len(ls) : ls[i].kind = Terminator(prov)
    THEN CHOOSE i \in 1..Len(ls) :
            /\ ls[i].kind = Terminator(prov)
            /\ \A j \in 1..(i - 1) : ls[j].kind # Terminator(prov)
    ELSE 0

\* the lines before the first terminator (all of them if there is none)
BeforeTerminator(prov, ls) ==
    IF FirstTerminator(prov, ls) = 0 THEN ls
    ELSE SubSeq(ls, 1, FirstTerminator(prov, ls) - 1)

NoFailure == \A i \in 1..Len(events) : events[i].type # "Err"

Exchanged == dpc = "closed" /\ status # 0 /\ is_success(status) /\ NoFailure

ExpectedEvents(texts) ==
    <<EvStart>> \o [i \in 1..Len(texts) |-> EvDelta(texts[i])] \o <<EvDone>>

\* an OpenAI-shape transcript that ends in `data: [DONE]`
WellFormedOpenAi(ls) ==
    /\ ls # <<>>
    /\ FirstTerminator("openai", ls) = Len(ls)
    /\ \A i \in 1..Len(ls) : ls[i].kind # "stop"

\* `e` is the text `s`, or `s` with characters that a chunk boundary cut
\* in two replaced by two U+FFFD
RECURSIVE LossyMatch(_, _)
LossyMatch(e, s) ==
    IF s = <<>> THEN e = <<>>
    ELSE IF e = <<>> THEN FALSE
    ELSE IF Head(s) = EAcute
         THEN \/ Head(e) = EAcute /\ LossyMatch(Tail(e), Tail(s))
              \/ /\ Len(e) >= 2
                 /\ e[1] = Replacement
                 /\ e[2] = Replacement
                 /\ LossyMatch(SubSeq(e, 3, Len(e)), Tail(s))
    ELSE Head(e) = Head(s) /\ LossyMatch(Tail(e), Tail(s))

----------------------------------------------------------------------------
\* C1 (as claimed): for a well-formed OpenAI body ending in `data: [DONE]`
\* and every partition of its bytes into chunks, the stream yields exactly
\* Start, one Delta per data line with non-empty content, in body order and
\* carrying that content, then one Done.
C1_ChunkSplitRobust ==
    (dprov = "openai" /\ Exchanged /\ WellFormedOpenAi(transcript))
    => events = ExpectedEvents(LineTexts(transcript))

\* C2 (as claimed): every exchange that started, whatever the chunks and the
\* outcomes of reading them, yields at most one Start and exactly one Done,
\* which is its last item.
C2_ExactlyOneDone ==
    (dpc = "closed" /\ events # <<>> /\ events[1].type = "Start")
    => /\ CountType(events, "Start") <= 1
       /\ CountType(events, "Done") = 1
       /\ events[Len(events)].type = "Done"

\* C2 (amended): Start is yielded at most once and first; a Done or a failure
\* is the last item of the stream; the Deltas are, in order, those of the
\* text lines before the first terminator, as far as they have arrived; an
\* exchange that ended has exactly one Done if it ended without a failure
\* and none if it ended with one.
C2_EventSequence ==
    /\ \A i \in 1..Len(events) :
          /\ events[i].type = "Start" => i = 1
          /\ events[i].type \in {"Done", "Err"} => i = Len(events)
          /\ events[i].type = "Delta" => events[1].type = "Start"
    /\ LET got == DeltaTexts(events)
           sent == LineTexts(BeforeTerminator(dprov, transcript))
       IN /\ Len(got) <= Len(sent)
          /\ \A i \in 1..Len(got) : LossyMatch(got[i], sent[i])
    /\ dpc = "closed" <=>
          (events # <<>> /\ events[Len(events)].type \in {"Done", "Err"})
    /\ (dpc = "closed" /\ NoFailure) => CountType(events, "Done") = 1

C2_Witness ==
    /\ dpc = "closed"
    /\ Len(events) >= 4
    /\ events[1].type = "Start"
    /\ events[Len(events)].type = "Err"
    /\ CountType(events, "Delta") = 2

\* C8: with a non-success status the stream yields no Start and no other
\* event: its only item is a failure that carries the status code and the
\* (trimmed) text of the response body, empty if the body could not be read;
\* the stream is over after it.
C8_NonSuccessStatus ==
    (status # 0 /\ ~(status >= 200 /\ status <= 299))
    => \/ dpc = "init" /\ events = <<>>
       \/ /\ dpc = "closed"
          /\ Len(events) = 1
          /\ events[1].type = "Err"
          /\ events[1].status = status
          /\ events[1].text \in {trim(BodyText(dprov, transcript, TRUE)), <<>>}

C8_Witness ==
    /\ status = 401
    /\ dpc = "closed"
    /\ Len(events) = 1
    /\ events[1].type = "Err"
    /\ events[1].status = 401
    /\ Len(events[1].text) > 3

\* C9: an exchange that is over without a failure has yielded exactly one
\* Done, as its last item and so after all its Deltas, also when the body
\* holds no terminator line (`[DONE]`, `message_stop`); and while it is being
\* read the bytes still to deliver only decrease towards the end of the
\* stream, where the Done is synthesized.
C9_SynthesizedDone ==
    /\ dpc = "reading" => (pos <= Len(body) /\ NoFailure)
    /\ (dpc = "closed" /\ NoFailure)
          => /\ events # <<>>
             /\ events[Len(events)].type = "Done"
             /\ CountType(events, "Done") = 1
             /\ (events[1].type = "Start" /\ FirstTerminator(dprov, transcript) = 0)
                   => pos = Len(body)

C9_Witness ==
    /\ dpc = "closed"
    /\ NoFailure
    /\ FirstTerminator(dprov, transcript) = 0
    /\ pos = Len(body)
    /\ CountType(events, "Delta") >= 1
    /\ events[Len(events)].type = "Done"

\* C10 (as claimed): in a successful Anthropic exchange every
\* content_block_delta line with a non-empty text before the first
\* message_stop yields one Delta carrying that text, in order, and the first
\* message_stop yields Done and ends the stream.
C10_AnthropicDecoder ==
    (dprov = "anthropic" /\ Exchanged /\ FirstTerminator("anthropic", transcript) # 0)
    => events = ExpectedEvents(LineTexts(BeforeTerminator("anthropic", transcript)))

\* C10, the instance of the claim: one content_block_delta with the text
\* "Hello" followed by message_stop yields Start, Delta("Hello"), Done.
C10_HelloInstance ==
    (/\ dprov = "anthropic"
     /\ Exchanged
     /\ transcript = <<[kind |-> "delta", text |-> <<"Hello">>],
                       [kind |-> "stop", text |-> <<>>]>>)
    => events = <<EvStart, EvDelta(<<"Hello">>), EvDone>>

----------------------------------------------------------------------------
IsNonDataLine(l) == l.kind \in {"event", "bare"}

\* C11: in both decoders a complete line that does not start with `data: `
\* (`event: message_start`, or a payload after `data:` without the space)
\* yields no event and changes nothing for the lines after it: an exchange
\* that reaches its terminator through such lines yields Start, one Delta
\* for each text line before the terminator, in order and with its text
\* (as decoded chunk by chunk), and Done, and nothing else.
C11_NonDataIgnored ==
    LET before == BeforeTerminator(dprov, transcript)
        sent == LineTexts(before)
        got == DeltaTexts(events)
    IN (/\ Exchanged
        /\ FirstTerminator(dprov, transcript) # 0
        /\ \E i \in 1..Len(before) : IsNonDataLine(before[i]))
       => /\ Len(events) = Len(sent) + 2
          /\ events[1] = EvStart
          /\ events[Len(events)] = EvDone
          /\ Len(got) = Len(sent)
          /\ \A i \in 1..Len(got) : LossyMatch(got[i], sent[i])

\* an `event:` line and a `data:` line without the space came before a
\* delta, and only the delta gave an event
C11_Witness ==
    /\ Exchanged
    /\ \E prov \in {"openai", "anthropic"} :
          /\ dprov = prov
          /\ transcript = <<[kind |-> "bare", text |-> <<>>],
                            [kind |-> "delta", text |-> <<"Hello">>],
                            [kind |-> Terminator(prov), text |-> <<>>]>>
    /\ events = <<EvStart, EvDelta(<<"Hello">>), EvDone>>

----------------------------------------------------------------------------
\* Vocabulary of the properties of the session

\* the messages that n complete turns of the warm-up append, in order
RECURSIVE WarmUpMessages(_)
WarmUpMessages(n) ==
    IF n = 0 THEN <<>>
    ELSE WarmUpMessages(n - 1)
         \o <<chat_message("user", OrdinaryLine(n)),
              chat_message("assistant", <<"Once upon a", " time", ToString(n)>>)>>

\* the last m elements of a sequence (all of it if it is shorter)
LastOf(q, m) == IF Len(q) <= m THEN q ELSE SubSeq(q, Len(q) - m + 1, Len(q))

\* n complete turns have been made and nothing else
CompletedTurns(n) ==
    /\ pc = "Idle"
    /\ lineNo = n
    /\ freeLines = 0
    /\ last_turn.outcome \in {"none", "done"}

\* the step reads a `/provider <name>` line that names a provider the code
\* knows and whose credential is not set
SwitchToProviderWithoutCredential ==
    /\ lineNo' = lineNo + 1
    /\ ~IsModel(last_line')
    /\ IsProvider(last_line')
    /\ LET name == to_lowercase(trim(strip_prefix(last_line', <<"/provider">>).rest))
       IN /\ name \in {<<"openai">>, <<"anthropic">>}
          /\ ~from_name(name, env).ok

----------------------------------------------------------------------------
\* C3 (as claimed): when the stream of a turn fails after one or more Deltas
\* were received, the partial text is dropped: the session is Idle again and
\* the history is what it was when the request was started, with no assistant
\* message appended.
C3_ErrorLeavesHistory ==
    (pc = "Idle" /\ last_turn.outcome = "error" /\ last_turn.text # <<>>)
    => /\ history = WithUserMessage(last_turn.before, last_line)
       /\ history[Len(history)].role # "assistant"

\* C4: with base prefix 1 and at most 16 recent messages, after n complete
\* user/assistant turns the history is the seed message followed by the last
\* 16 of the 2n messages appended, in their order; after 20 turns these are
\* 17 messages.
C4_RetentionScenario ==
    /\ \A n \in 0..MaxLines :
          CompletedTurns(n)
          => history = <<SeedMessage>> \o LastOf(WarmUpMessages(n), 16)
    /\ CompletedTurns(20) => Len(history) = 17

C4_Witness ==
    /\ CompletedTurns(20)
    /\ Len(history) = 17
    /\ history[2] = chat_message("user", OrdinaryLine(13))
    /\ history[17].role = "assistant"

\* C5: the first message of the history is always the seed message.
C5_BasePrefixImmutable ==
    /\ history # <<>>
    /\ history[1] = SeedMessage

\* the history is full, its oldest turns are gone, and the line read last
\* was taken back because the provider could not be created
C5_Witness ==
    /\ pc = "Idle"
    /\ lineNo >= 10
    /\ last_turn.outcome = "config"
    /\ Len(last_turn.before) = 17
    /\ last_turn.before[2] # chat_message("user", OrdinaryLine(1))
    /\ history[1] = SeedMessage

\* C6: trim_chat_history leaves a history of at most b + m messages as it is
\* and reduces a longer one to its first b messages followed by its last m
\* (checked on every history of the session, for every b and m of the
\* bounds); hence the history of the session never holds more than 16
\* messages after the seed message.
C6_RetentionPolicy ==
    /\ \A b \in 0..MaxTrimBase, m \in 0..(MAX_HISTORY_MESSAGES + 1) :
          LET n == Len(history)
              t == trim_chat_history(history, b, m)
          IN IF n <= b + m
             THEN t = history
             ELSE t = SubSeq(history, 1, b) \o SubSeq(history, n - m + 1, n)
    /\ Len(history) - 1 <= 16

\* the history is full after an eviction
C6_Witness ==
    /\ pc = "Idle"
    /\ Len(history) = 17
    /\ lineNo >= 9
    /\ history[2] # chat_message("user", OrdinaryLine(1))

\* C7 (as claimed): a `/provider <name>` command that names a provider whose
\* credential cannot be resolved leaves the provider selected before it
\* selected.
C7_PreviousProviderKept ==
    [][SwitchToProviderWithoutCredential => current_provider' = current_provider]_vars


----------------------------------------------------------------------------
\* Steps of the session, told by what they read

\* the step reads a line that is handled as a `/provider` command
ReadsProviderCommand ==
    /\ lineNo' = lineNo + 1
    /\ ~IsModel(last_line')
    /\ IsProvider(last_line')

\* the name given to the `/provider` command the step reads
ProviderNameRead == trim(strip_prefix(last_line', <<"/provider">>).rest)

Recognized == {<<"openai">>, <<"anthropic">>}

\* the client a provider name stands for
ClientNamed(name) ==
    IF name = <<"openai">> THEN "openai"
    ELSE IF name = <<"anthropic">> THEN "anthropic"
    ELSE "none"

\* the step reads the line `/reset`
ReadsReset == lineNo' = lineNo + 1 /\ last_line' = <<"/reset">>

C13_UnknownProvider ==
    [][(/\ ReadsProviderCommand
        /\ ProviderNameRead # <<>>
        /\ to_lowercase(ProviderNameRead) \notin Recognized)
         => /\ UNCHANGED <<current_provider, current_model, history>>
            /\ notice' = "Unknown provider:"
            /\ UNCHANGED <<request, wire, dvars>>
            /\ pc = "Idle" /\ pc' = "Idle"]_vars

C13_Witness ==
    /\ last_line = <<"/provider", " ", "bogus">>
    /\ notice = "Unknown provider:"
    /\ pc = "Idle"
    /\ Len(history) > 1
    /\ current_provider = args.provider

\* C14: `/reset` leaves exactly the seed message in the history, a second
\* `/reset` right after it leaves the same history, and neither changes the
\* model or the provider selected.
C14_ResetIdempotent ==
    [][ReadsReset
         => /\ history' = <<SeedMessage>>
            /\ history' = SubSeq(history, 1, BASE_MESSAGES)
            /\ last_line = <<"/reset">> => history' = history
            /\ UNCHANGED <<current_model, current_provider>>
            /\ pc' = "Idle"]_vars

\* two resets in a row, the first of a history with more than the seed
C14_Witness ==
    /\ last_line = <<"/reset">>
    /\ last_turn.outcome = "reset"
    /\ last_turn.text = <<"/reset">>
    /\ last_turn.before = <<SeedMessage>>
    /\ history = <<SeedMessage>>
    /\ lineNo >= 3


\* the step reads an ordinary line
ReadsOrdinaryLine == lineNo' = lineNo + 1 /\ IsOrdinary(last_line')

C16_SequentialTurns ==
    [][/\ (pc' = "Awaiting") = (request' # NoRequest)
       /\ (pc' = "Awaiting") = (dprov' # "none")
       /\ (pc' = "Awaiting") = (wire' # NoWire)
       /\ lineNo' # lineNo
            => /\ pc = "Idle"
               /\ request = NoRequest
               /\ Exchange = NoExchange
       /\ (request' # request /\ request' # NoRequest)
            => /\ pc = "Idle" /\ pc' = "Awaiting"
               /\ request = NoRequest
               /\ Exchange = NoExchange
               /\ lineNo' = lineNo + 1
       /\ (pc = "Awaiting" /\ pc' # "Awaiting")
            => /\ last_turn'.outcome \in {"done", "error"}
               /\ request' = NoRequest]_vars

\* a second request is in flight after the first turn was completed
C16_Witness ==
    /\ pc = "Awaiting"
    /\ lineNo >= 2
    /\ last_turn.prev = "done"
    /\ dpc = "reading"
    /\ events # <<>>
    /\ Len(request.messages) >= 4


\* the concatenation of a sequence of texts
RECURSIVE Concat(_)
Concat(texts) == IF texts = <<>> THEN <<>> ELSE Head(texts) \o Concat(Tail(texts))

\* C17: when the stream of a turn reaches Done (sent or synthesized at the
\* end of the stream) the session is Idle again; if the server sent text
\* before the terminator, the history gains exactly one assistant message,
\* the concatenation of the Delta texts in order, and is trimmed; if it sent
\* none, the history is left as it is.
C17_CompletedTurn ==
    [][(pc = "Awaiting" /\ last_turn'.outcome = "done")
         => LET texts == LineTexts(BeforeTerminator(dprov, transcript))
                text == Concat(texts)
            IN /\ pc' = "Idle"
               /\ sink' = texts
               /\ IF text = <<>>
                  THEN history' = history
                  ELSE /\ history'[Len(history')] = chat_message("assistant", text)
                       /\ IF Len(history) < BASE_MESSAGES + MAX_HISTORY_MESSAGES
                          THEN history' = Append(history, history'[Len(history')])
                          ELSE /\ Len(history') = BASE_MESSAGES + MAX_HISTORY_MESSAGES
                               /\ history'[1] = history[1]
                               /\ \A i \in 2..(Len(history') - 1) :
                                     history'[i] = history[i + 1]]_vars

\* a turn completed with text while the history was full
C17_Witness ==
    /\ pc = "Idle"
    /\ last_turn.outcome = "done"
    /\ Len(last_turn.text) = 3
    /\ Len(last_turn.before) = 17
    /\ Len(history) = 17
    /\ history[17] = chat_message("assistant", last_turn.text)
    /\ history[16] = chat_message("user", last_line)


\* the history with the line as a user message, after retention
WithLine(h, line) ==
    LET pushed == Append(h, chat_message("user", line)) IN
    IF Len(pushed) <= BASE_MESSAGES + MAX_HISTORY_MESSAGES THEN pushed
    ELSE <<pushed[1]>>
         \o SubSeq(pushed, Len(pushed) - MAX_HISTORY_MESSAGES + 1, Len(pushed))

\* the step starts the one request of the line it reads
StartsRequest ==
    /\ history' = WithLine(history, last_line')
    /\ pc' = "Awaiting"
    /\ request'.messages = history'
    /\ request'.messages[1] = SeedMessage
    /\ request'.messages[Len(request'.messages)] = chat_message("user", last_line')
    /\ request'.model = current_model
    /\ request'.system = Some(SYSTEM_PROMPT)
    /\ wire'.model = current_model
    /\ dpc' = "init" /\ events' = <<>> /\ pos' = 0

\* C18 (as claimed): every ordinary line read in Idle is appended to the
\* history as a user message, the history is trimmed, and one request is
\* started with the history at that point and the current model.
C18_OrdinaryLineStartsTurn ==
    [][ReadsOrdinaryLine => (pc = "Idle" /\ StartsRequest)]_vars

\* C18 (amended): an ordinary line read in Idle is appended to the history
\* as a user message and the history is trimmed; if the provider can be
\* created, one request is started with the history at that point and the
\* current model; if it cannot, no request is started, the message is
\* removed from the history again and the session stays Idle.
C18_OrdinaryLineStartsTurnIfProvider ==
    [][ReadsOrdinaryLine
         => /\ pc = "Idle"
            /\ IF from_name(current_provider, env).ok
               THEN StartsRequest
               ELSE /\ pc' = "Idle"
                    /\ LET h == WithLine(history, last_line')
                       IN history' = SubSeq(h, 1, Len(h) - 1)
                    /\ UNCHANGED <<request, wire, dvars>>
                    /\ request = NoRequest
                    /\ notice' = "Error:"]_vars

\* the model was changed, the history is full, and the request of the line
\* just read is about to be sent
C18_Witness ==
    /\ pc = "Awaiting"
    /\ dpc = "init"
    /\ Len(request.messages) = 17
    /\ request.messages = history
    /\ request.messages[1] = SeedMessage
    /\ request.messages[17] = chat_message("user", last_line)
    /\ request.model = <<"gpt-4o">>
    /\ current_model = <<"gpt-4o">>


IsPrefix(p, q) == Len(p) <= Len(q) /\ SubSeq(q, 1, Len(p)) = p

\* C19: while the session is Awaiting, the history is the one the request
\* was built from and no step changes it; every Delta the stream yields is
\* printed in the step that yields it, in order, and appended to the text
\* of the turn; the step that ends the turn only adds to what was printed.
C19_NoHistoryMutationWhileStreaming ==
    [][pc = "Awaiting"
         => /\ history = request.messages
            /\ sink = DeltaTexts(events)
            /\ response_text = Concat(sink)
            /\ IsPrefix(sink, sink')
            /\ pc' = "Awaiting"
                 => /\ history' = history
                    /\ request' = request
                    /\ IsPrefix(events, events')
                    /\ sink' = DeltaTexts(events')
                    /\ response_text' = Concat(sink')]_vars

\* the first Delta of a turn has been printed and the rest is to come
C19_Witness ==
    /\ pc = "Awaiting"
    /\ dpc = "reading"
    /\ pos < Len(body)
    /\ sink = <<<<"Once upon a">>>>
    /\ response_text = <<"Once upon a">>
    /\ Len(history) = 17
    /\ history = request.messages


----------------------------------------------------------------------------
\* C20: the messages of the OpenAI request body are the system prompt as a
\* first entry with the role "system" when the request has one, followed by
\* the messages of the request in their order with role and content as they
\* are, and nothing else; the stream flag is true.
C20_OpenAiTranslation ==
    (dprov = "openai" /\ wire # NoWire)
    => LET n == Len(request.messages)
           k == IF request.system.some THEN 1 ELSE 0
       IN /\ Len(wire.messages) = n + k
          /\ request.system.some
               => wire.messages[1] =
                     [role |-> "system", content |-> request.system.value]
          /\ \A i \in 1..n :
                wire.messages[i + k] =
                   [role |-> request.messages[i].role,
                    content |-> request.messages[i].content]
          /\ wire.stream = TRUE
          /\ wire.model = request.model

C20_Witness ==
    /\ dprov = "openai"
    /\ request.system = Some(SYSTEM_PROMPT)
    /\ Len(request.messages) = 3
    /\ request.messages[1].role = "assistant"
    /\ Len(wire.messages) = 4
    /\ wire.messages[1].role = "system"
    /\ wire.messages[2] = request.messages[1]
    /\ wire.stream

----------------------------------------------------------------------------
\* C21: the Anthropic request body carries the system prompt of the request
\* in its top-level `system` field only and never as an entry of `messages`;
\* its messages are the messages of the request, in their order, with role
\* and content as they are; `max_tokens` is always present and is the value
\* of the request, or 256 when the request has none; the stream flag is true.
C21_AnthropicTranslation ==
    (dprov = "anthropic" /\ wire # NoWire)
    => /\ wire.system = request.system
       /\ Len(wire.messages) = Len(request.messages)
       /\ \A i \in 1..Len(request.messages) :
             wire.messages[i] =
                [role |-> request.messages[i].role,
                 content |-> request.messages[i].content]
       /\ \A i \in 1..Len(wire.messages) : wire.messages[i].role # "system"
       /\ wire.max_tokens =
             (IF request.max_tokens.some THEN request.max_tokens.value ELSE 256)
       /\ wire.stream = TRUE
       /\ wire.model = request.model

C21_Witness ==
    /\ dprov = "anthropic"
    /\ request.system = Some(SYSTEM_PROMPT)
    /\ request.max_tokens = None
    /\ Len(request.messages) = 3
    /\ wire.system = Some(SYSTEM_PROMPT)
    /\ wire.max_tokens = 256
    /\ Len(wire.messages) = 3
    /\ wire.messages[3] = request.messages[3]
    /\ wire.stream

----------------------------------------------------------------------------
\* the `max_tokens` member of the serialized request body: Option<u32> in
\* the OpenAI body, where None is not serialized, and u32 in the Anthropic one
BodyMaxTokens ==
    IF dprov = "openai" THEN wire.max_tokens ELSE Some(wire.max_tokens)

\* C22: for every request without max_tokens, the request body of each
\* translator carries a max_tokens value, the default of that provider, and
\* the value is never negative.
C22_DefaultMaxTokens ==
    (wire # NoWire /\ ~request.max_tokens.some)
    => /\ BodyMaxTokens.some
       /\ BodyMaxTokens.value \in Nat

----------------------------------------------------------------------------
\* the step reads a line that is handled as a `/model` command
ReadsModelCommand == lineNo' = lineNo + 1 /\ IsModel(last_line')

\* the name given to the `/model` command the step reads
ModelNameRead == trim(strip_prefix(last_line', <<"/model">>).rest)

\* C23: `/model <name>`, read in Idle, selects <name> as the model, leaves
\* the provider and the history as they are, starts no request and leaves
\* the session Idle; `/model` without a name changes none of them; and every
\* request that is started afterwards carries the model selected then.
C23_ModelSwitch ==
    [][/\ (ReadsModelCommand /\ ModelNameRead # <<>>)
            => /\ current_model' = ModelNameRead
               /\ pc = "Idle" /\ pc' = "Idle"
               /\ UNCHANGED <<current_provider, history, request, wire, dvars>>
       /\ (ReadsModelCommand /\ ModelNameRead = <<>>)
            => /\ pc = "Idle" /\ pc' = "Idle"
               /\ UNCHANGED <<current_model, current_provider, history,
                              request, wire, dvars>>
       /\ (pc = "Idle" /\ pc' = "Awaiting")
            => /\ current_model' = current_model
               /\ request'.model = current_model
               /\ wire'.model = current_model]_vars

\* the model was switched, `/model` without a name was read after it, and
\* the request of the next ordinary line carries the new model
C23_Witness ==
    /\ pc = "Awaiting"
    /\ args.model = <<"gpt-4o-mini">>
    /\ current_model = <<"gpt-4o">>
    /\ request.model = <<"gpt-4o">>
    /\ wire.model = <<"gpt-4o">>
    /\ current_provider = args.provider
    /\ request.messages[Len(request.messages)].content = last_line

\* the step reads `/exit` or `/quit`
ReadsExit == lineNo' = lineNo + 1 /\ IsExit(last_line')

\* the step is taken at the prompt without a line being read: the input
\* has ended
InputEnds == pc = "Idle" /\ lineNo' = lineNo

\* C24: `/exit` or `/quit`, read in Idle, and the end of the input take the
\* session to Terminated and leave the history as it is; once Terminated,
\* no line is read, no request is started and the history is not changed.
C24_QuitIsTerminal ==
    [][/\ ReadsExit
            => /\ pc = "Idle" /\ pc' = "Terminated"
               /\ UNCHANGED <<history, request, wire, dvars>>
       /\ InputEnds
            => /\ pc' = "Terminated"
               /\ UNCHANGED <<history, request, wire, dvars>>
       /\ pc = "Terminated"
            => /\ pc' = "Terminated"
               /\ UNCHANGED <<lineNo, last_line, history, request, wire,
                              dvars>>]_vars

\* the session was left by `/quit` after turns that filled the history
C24_Witness ==
    /\ pc = "Terminated"
    /\ last_line = <<"/quit">>
    /\ Len(history) = 17
    /\ request = NoRequest
    /\ dpc = "closed"

\* the step reads a blank line or the line `/help`
ReadsBlankOrHelp ==
    /\ lineNo' = lineNo + 1
    /\ (last_line' = <<>> \/ last_line' = <<"/help">>)

\* C25: a blank line (empty, or white space only) and `/help` leave the
\* history, the model and the provider as they are, start no request and
\* leave the session Idle.
C25_BlankAndHelpNoOps ==
    [][ReadsBlankOrHelp
         => /\ pc = "Idle" /\ pc' = "Idle"
            /\ UNCHANGED <<history, current_model, current_provider, request,
                           wire, dvars>>]_vars

\* `/help` was read with a full history
C25_Witness ==
    /\ pc = "Idle"
    /\ last_line = <<"/help">>
    /\ notice = "Commands:"
    /\ Len(history) = 17
    /\ freeLines = 2

\* a line of white space was read with a full history
C25_BlankRead ==
    /\ pc = "Idle"
    /\ last_line = <<>>
    /\ lineNo > 8
    /\ Len(history) = 17

----------------------------------------------------------------------------
\* the step is one that needs the credential of the provider: the chat
\* session reads an ordinary line, or the single request is started
NeedsCredential == (pc = "Idle" /\ ReadsOrdinaryLine) \/ (pc = "Single" /\ pc' # pc)

\* the credential of the provider the step needs is not set
MissingCredential ==
    ~from_name(IF pc = "Single" THEN args.provider ELSE current_provider, env).ok

\* C26 (as claimed): a missing credential aborts only the operation that
\* needed it: no request is started, and neither the chat session nor the
\* single-shot command ends in failure because of it.
C26_ConfigurationErrorLocal ==
    [][(NeedsCredential /\ MissingCredential)
         => /\ UNCHANGED <<request, wire, dvars>>
            /\ pc' # "Failed"]_vars

\* C26 (amended): a missing credential starts no request; in the chat
\* session the turn is abandoned with the diagnostic `Error:` and the
\* session is Idle again, with provider and model as they were; in the
\* single-shot command the error is returned to the caller and the command
\* ends in failure without a diagnostic of its own.
C26_ConfigurationErrorPerPath ==
    [][(NeedsCredential /\ MissingCredential)
         => /\ UNCHANGED <<request, wire, dvars>>
            /\ UNCHANGED <<current_provider, current_model>>
            /\ pc = "Idle" => (pc' = "Idle" /\ notice' = "Error:")
            /\ pc = "Single" => (pc' = "Failed" /\ notice' = notice)]_vars

\* the chat session started with a provider whose credential is not set,
\* its first line was refused, the provider was switched, and the third
\* line has its request in flight
C26_Witness ==
    /\ pc = "Awaiting"
    /\ args.provider = <<"anthropic">>
    /\ "ANTHROPIC_API_KEY" \notin env
    /\ lineNo = 3
    /\ freeLines = 2
    /\ current_provider = <<"openai">>
    /\ request.provider = "openai"

\* the single-shot command has returned the configuration error
C26_SingleFailed ==
    /\ pc = "Failed"
    /\ last_turn.outcome = "config"
    /\ request = NoRequest
    /\ dpc = "closed"
    /\ notice = ""

----------------------------------------------------------------------------
\* the exchange has ended after a success status and no read of the
\* connection failed
TransportOk ==
    /\ dpc = "closed"
    /\ status # 0
    /\ is_success(status)
    /\ \A i \in 1..Len(events) : events[i] \notin {ErrChunk, ErrSend}

\* C27: once the OpenAI decoder has handled `data: [DONE]` it has yielded
\* Done and is over: the lines after it, in the same chunk or in later
\* ones, give no event (the events are Start, the Deltas of the text lines
\* before `[DONE]` and Done), and no further chunk is read.
C27_DoneDiscardsRest ==
    LET t == FirstTerminator("openai", transcript)
        sent == LineTexts(BeforeTerminator("openai", transcript))
        got == DeltaTexts(events)
    IN /\ (dprov = "openai" /\ \E i \in 1..Len(events) : events[i] = EvDone)
            => /\ dpc = "closed"
               /\ ~CanReadChunk(Exchange)
               /\ ~CanChunkError(Exchange)
               /\ ~CanStreamEnd(Exchange)
       /\ (dprov = "openai" /\ Exchanged /\ t # 0 /\ t < Len(transcript))
            => /\ Len(events) = Len(sent) + 2
               /\ events[1] = EvStart
               /\ events[Len(events)] = EvDone
               /\ Len(got) = Len(sent)
               /\ \A i \in 1..Len(got) : LossyMatch(got[i], sent[i])

\* `[DONE]` came before a delta: the chunk that held it also held the start
\* of what follows, the rest of the body was never read, and the delta
\* after `[DONE]` gave no event
C27_Witness ==
    /\ dprov = "openai"
    /\ Exchanged
    /\ transcript = <<[kind |-> "delta", text |-> <<"Hello">>],
                      [kind |-> "done", text |-> <<>>],
                      [kind |-> "delta", text |-> <<"Hello">>]>>
    /\ events = <<EvStart, EvDelta(<<"Hello">>), EvDone>>
    /\ buffer # <<>>
    /\ pos < Len(body)

\* a `data: ` line whose payload the decoder of the provider cannot parse
\* (`[DONE]` for Anthropic, a message_stop event for OpenAI) or parses to a
\* shape it ignores (a role delta, a ping)
IsSwallowedLine(prov, l) ==
    \/ l.kind = "other"
    \/ prov = "openai" /\ l.kind = "stop"
    \/ prov = "anthropic" /\ l.kind = "done"

\* C28: in both decoders a `data: ` line whose payload cannot be parsed, or
\* parses to an ignored shape, yields no event and no failure, and the
\* lines after it are decoded as if it were absent: an exchange that reaches
\* its terminator through such lines yields Start, one Delta for each text
\* line before the terminator, in order and with its text (as decoded chunk
\* by chunk), and Done, and nothing else.
C28_DecodeErrorsSwallowed ==
    LET before == BeforeTerminator(dprov, transcript)
        sent == LineTexts(before)
        got == DeltaTexts(events)
    IN (/\ TransportOk
        /\ FirstTerminator(dprov, transcript) # 0
        /\ \E i \in 1..Len(before) : IsSwallowedLine(dprov, before[i]))
       => /\ NoFailure
          /\ Len(events) = Len(sent) + 2
          /\ events[1] = EvStart
          /\ events[Len(events)] = EvDone
          /\ Len(got) = Len(sent)
          /\ \A i \in 1..Len(got) : LossyMatch(got[i], sent[i])

\* a payload that cannot be parsed came before a delta, and only the delta
\* gave an event
C28_Witness ==
    /\ TransportOk
    /\ \E prov \in {"openai", "anthropic"} :
          /\ dprov = prov
          /\ transcript =
                <<[kind |-> IF prov = "openai" THEN "stop" ELSE "done",
                   text |-> <<>>],
                  [kind |-> "delta", text |-> <<"Hello">>],
                  [kind |-> Terminator(prov), text |-> <<>>]>>
    /\ events = <<EvStart, EvDelta(<<"Hello">>), EvDone>>

\* C29: while the decoder waits for the next chunk its buffer holds no
\* newline (every complete line has been taken out of it), and an empty
\* chunk yields no event and leaves the buffer, and the decoder, as they
\* are.
C29_ChunkBuffering ==
    dpc = "reading"
    => /\ find(buffer, LF) = 0
       /\ AfterReadChunk(Exchange, 0) = Exchange

\* a chunk brought a complete delta line and the start of the next line
C29_Witness ==
    /\ dpc = "reading"
    /\ events = <<EvStart, EvDelta(<<"Hello">>)>>
    /\ buffer # <<>>
    /\ find(buffer, LF) = 0
    /\ pos < Len(body)

----------------------------------------------------------------------------
\* the step builds a request or opens an exchange
IssuesRequest ==
    \/ request' # request /\ request' # NoRequest
    \/ wire' # wire /\ wire' # NoWire
    \/ dpc' = "init" /\ Exchange' # Exchange
    \/ pc' = "Awaiting" /\ pc # "Awaiting"

\* the request of the turn cannot be sent, or is answered with a status
\* that is not a success
RequestFails ==
    /\ pc = "Awaiting"
    /\ dpc = "init"
    /\ (status = 0 \/ ~is_success(status))

\* C30: a request is issued only by the step that reads a new ordinary line
\* at the prompt, so each ordinary line causes at most one; a request that
\* cannot be sent or is refused is not sent again but ends the turn as a
\* stream error; and every turn that ends with a stream error leaves the
\* session Idle with no request and no exchange, until the next line.
C30_NoInternalRetry ==
    [][/\ IssuesRequest => (pc = "Idle" /\ ReadsOrdinaryLine)
       /\ RequestFails
            => /\ last_turn'.outcome = "error"
               /\ pc' = "Idle"
       /\ (pc = "Awaiting" /\ last_turn'.outcome = "error")
            => /\ pc' = "Idle"
               /\ notice' = "Error:"
               /\ request' = NoRequest
               /\ wire' = NoWire
               /\ Exchange' = NoExchange
               /\ lineNo' = lineNo]_vars

\* the turn before ended with a stream error, and the request of the next
\* ordinary line is about to be sent
C30_Witness ==
    /\ pc = "Awaiting"
    /\ dpc = "init"
    /\ last_turn.prev = "error"
    /\ lineNo >= 2
    /\ request.messages[Len(request.messages)].content = last_line

----------------------------------------------------------------------------
\* C31: when the provider of a turn cannot be created, the history after
\* the refused line is the history as it was before the line was entered,
\* also when it already held 17 messages.
C31_RollbackOnConfigError ==
    last_turn.outcome = "config" => history = last_turn.before

----------------------------------------------------------------------------
\* the first characters of the lines that begin with `/`
SlashWords == {"/exit", "/quit", "/reset", "/help", "/model", "/provider", "/foo"}

\* the line begins with the reserved prefix `/`
HasReservedPrefix(line) == line # <<>> /\ line[1] \in SlashWords

\* C32: a line that begins with `/` is never appended to the history as a
\* user message and never starts a request, whether it is a command, an
\* unknown command such as `/foo`, or a command with more text such as
\* `/reset now`.
C32_ReservedPrefixNeverSent ==
    [][(lineNo' = lineNo + 1 /\ HasReservedPrefix(last_line'))
         => /\ pc' # "Awaiting"
            /\ UNCHANGED <<request, wire, dvars>>
            /\ \A i \in 1..Len(history') :
                  history'[i] # chat_message("user", last_line')]_vars

\* the first token of the line: its characters up to the first white space
FirstToken(line) ==
    IF \E i \in 1..Len(line) : line[i] \in Whitespace
    THEN SubSeq(line, 1,
                (CHOOSE i \in 1..Len(line) :
                    /\ line[i] \in Whitespace
                    /\ \A j \in 1..(i - 1) : line[j] \notin Whitespace) - 1)
    ELSE line

\* C36: the model selected changes only in a step that reads a line whose
\* first token is exactly `/model`, and the provider selected only in one
\* whose first token is exactly `/provider`.
C36_ExactCommandMatching ==
    [][/\ current_model' # current_model
            => (lineNo' = lineNo + 1 /\ FirstToken(last_line') = <<"/model">>)
       /\ current_provider' # current_provider
            => (lineNo' = lineNo + 1 /\ FirstToken(last_line') = <<"/provider">>)]_vars

----------------------------------------------------------------------------
\* C33: when the stream ends, every data payload of the body has been
\* decoded, also a last one that no newline follows: in an exchange that
\* ends without a terminator line the Deltas are those of all the text
\* lines of the body, in order (as decoded chunk by chunk), followed by
\* the final Done.
C33_NoPayloadLost ==
    LET sent == LineTexts(transcript)
        got == DeltaTexts(events)
    IN (Exchanged /\ FirstTerminator(dprov, transcript) = 0)
       => /\ Len(got) = Len(sent)
          /\ \A i \in 1..Len(got) : LossyMatch(got[i], sent[i])
          /\ events[Len(events)] = EvDone

\* the events of the exchange when its whole body arrives as one chunk
OneChunkEvents ==
    LET d0 == [Exchange EXCEPT !.pos = 0, !.buffer = <<>>, !.events = <<>>,
                               !.dpc = "init"]
        d1 == AfterStreamStart(d0)
        d2 == AfterReadChunk(d1, Len(body))
    IN IF d2.dpc = "closed" THEN d2.events ELSE AfterStreamEnd(d2).events

\* C34: for a body sent with a success status, the events of the stream
\* are the same for every partition of the bytes into chunks: those of the
\* partition into one chunk.
C34_ChunkingIndependence ==
    Exchanged => events = OneChunkEvents

----------------------------------------------------------------------------
\* C35 (as claimed): the messages of every request of the session are the
\* seed message followed by messages whose roles alternate, user first,
\* and the last of them is the user message just entered.
C35_RoleAlternation ==
    pc = "Awaiting"
    => LET m == request.messages IN
       /\ m[1] = SeedMessage
       /\ m[Len(m)] = chat_message("user", last_line)
       /\ \A i \in 2..Len(m) :
             m[i].role = (IF i % 2 = 0 THEN "user" ELSE "assistant")

\* C35 (amended): the messages of every request of the session start with
\* the seed message and end with the user message just entered, they are at
\* most 17, every role is user or assistant, and every assistant message
\* directly follows a user message.
C35_RequestShape ==
    pc = "Awaiting"
    => LET m == request.messages IN
       /\ Len(m) >= 2
       /\ Len(m) <= BASE_MESSAGES + MAX_HISTORY_MESSAGES
       /\ m[1] = SeedMessage
       /\ m[Len(m)] = chat_message("user", last_line)
       /\ \A i \in 1..Len(m) : m[i].role \in {"user", "assistant"}
       /\ \A i \in 1..Len(m) :
             m[i].role = "assistant" => (i > 1 /\ m[i - 1].role = "user")

\* a request after an eviction: an assistant message follows the seed
\* message
C35_Witness ==
    /\ pc = "Awaiting"
    /\ Len(request.messages) = 17
    /\ request.messages[2].role = "assistant"
    /\ request.messages[16].role = "assistant"
    /\ request.messages[17] = chat_message("user", last_line)

\* a request after a turn without an answer: two user messages end it
C35_AdjacentUsers ==
    /\ pc = "Awaiting"
    /\ Len(request.messages) > 3
    /\ request.messages[Len(request.messages) - 1].role = "user"
    /\ request.messages[Len(request.messages)] = chat_message("user", last_line)

----------------------------------------------------------------------------
\* Properties of the reader.

ReaderRuns == app.tpc # "none"

\* the verses are in the order of their verse numbers
IsOrderedByVerse(vs) == \A i \in 1..(Len(vs) - 1) : vs[i].verse <= vs[i + 1].verse

\* the two lists hold the same verses, each as often
SameVerses(vs, ws) ==
    /\ Len(vs) = Len(ws)
    /\ \A v \in {vs[i] : i \in 1..Len(vs)} \cup {ws[i] : i \in 1..Len(ws)} :
          Cardinality({i \in 1..Len(vs) : vs[i] = v})
              = Cardinality({i \in 1..Len(ws) : ws[i] = v})

\* C37: after App::new and after every sequence of update messages the
\* current chapter lies between 1 and the last chapter of the current book,
\* chapter_verses is exactly the verses of the current book and chapter in
\* the order of their verse numbers, and NextChapter at the last chapter and
\* PrevChapter at chapter 1 change nothing.
C37_ChapterConsistency ==
    ReaderRuns =>
        /\ 1 <= app.current_chapter
        /\ app.current_chapter <= app.max_chapter
        /\ SameVerses(app.chapter_verses,
                      SelectSeq(app.verses,
                                LAMBDA v : /\ v.book = app.current_book
                                           /\ v.chapter = app.current_chapter))
        /\ IsOrderedByVerse(app.chapter_verses)
        /\ (app.current_chapter = app.max_chapter
                => update(app, "NextChapter") = app)
        /\ (app.current_chapter = 1 => update(app, "PrevChapter") = app)

\* C38: after every interleaving of update messages and of the
\* set_content_height calls of rendering, the scroll offset is at most the
\* maximum scroll of the current chapter and content height, and no u16
\* addition of scroll_down or calculate_max_scroll has overflowed.
C38_ScrollBound ==
    ReaderRuns =>
        /\ app.scroll_offset <= calculate_max_scroll(app)
        /\ ~app.overflow

----------------------------------------------------------------------------
\* Properties of the search.

\* the verses of the file that the book filter lets through and that hold
\* the query, in the order of the file
AllMatches ==
    LET book_filter == IF search.book.some THEN normalize_book(search.book.value)
                       ELSE None
    IN SelectSeq(search.verses,
                 LAMBDA v : /\ book_filter.some => v.book = book_filter.value
                            /\ contains(to_lowercase(v.text), to_lowercase(search.query)))

\* C39: for every verse file, query, optional book and limit, limit 0
\* included, run_search prints at most `limit` verses, and they are the
\* earliest matches in the order of the file.
C39_SearchLimit ==
    search.spc = "done" =>
        /\ Len(search.printed) <= search.limit
        /\ search.printed
              = SubSeq(AllMatches, 1,
                       IF Len(AllMatches) <= search.limit THEN Len(AllMatches)
                       ELSE search.limit)

====
